---- MODULE Spec2Model ----
(***************************************************************************)
(* reverything: the in-memory NTFS index (src/src/ntfs/index.rs) and the   *)
(* USN journal reader (src/src/ntfs/journal.rs).                           *)
(*                                                                         *)
(* Spec        the index: process_journal_entries applied to batches of    *)
(*             journal entries, and the ancestor walk (HierarchyIter).     *)
(* JournalSpec the journal reader: read_entries applied to the buffers     *)
(*             FSCTL_READ_USN_JOURNAL returns.                             *)
(***************************************************************************)
EXTENDS Integers, Sequences, FiniteSets, TLC

VARIABLES
    infos,              \* NtfsVolumeIndex.infos: Vec<Option<FileInfo>>, slot i is infos[i + 1]
    panicked,           \* TRUE once process_journal_entries has panicked (index out of bounds)
    pc,                 \* "idle", or the state of a HierarchyIter: "iter" (live), "done" (returned None)
    current,            \* HierarchyIter.current: Option<&FileInfo>, a reference is the slot it points to
    yielded,            \* the slots HierarchyIter::next has returned so far, in order
    next_usn,           \* Journal.next_usn
    unmatched_renames,  \* Journal.unmatched_renames: VecDeque<UnmatchedRename>
    jpc,                \* "idle", or "returned" while the caller holds the result of read_entries
    buffer,             \* the buffer FSCTL_READ_USN_JOURNAL filled in that call of read_entries
    ret,                \* the Result<Vec<JournalEntry>> that call returned
    build,              \* NtfsVolumeIndex::new: where the constructor is and what it has joined
    workers,            \* the scoped worker threads of process_mft_data
    call                \* the last call of a helper function: its name, arguments and outcome

indexVars == <<infos, panicked, pc, current, yielded>>
journalVars == <<next_usn, unmatched_renames, jpc, buffer, ret>>
buildVars == <<build, workers>>
vars == <<infos, panicked, pc, current, yielded, next_usn, unmatched_renames, jpc, buffer, ret,
          build, workers, call>>

(***************************************************************************)
(* Option<T>: None is the empty sequence, Some(x) the one-element sequence. *)
(***************************************************************************)
None == << >>
Some(x) == <<x>>
Unwrap(o) == o[1]

(***************************************************************************)
(* Program constants and the bounds of the model.                          *)
(***************************************************************************)
ROOT_INDEX == 5
PAR_ITER_CHUNK_COUNT == 64

\* The longest batch handed to process_journal_entries.
MaxBatch == 2
\* The number of items after which a walk that has not ended is cut off.
MaxWalk == 4
\* The most records one journal buffer holds.
MaxRecords == 2
\* The highest NextUsn a journal buffer starts with.
MaxUsn == 2
\* The most unmatched renames queued before the model stops reading old names.
MaxFifo == 2
\* The number of old-name records read one by one in FifoSpec: enough to fill
\* the queue of unmatched renames and push once more.
MaxPushes == 1001
\* The most chunks a parallel scan of the table is split into.
MaxChunks == 3
\* The number of worker threads process_mft_data spawns (physical CPUs - 1).
NumWorkers == 2
\* The most runs in the run group of one worker.
MaxRuns == 2

\* The MFT indices journal entries name. Slot 7 lies beyond the initial table.
MftIndices == {5, 6, 7}
\* The MFT indices FileCreate entries announce: the root record is never created anew.
CreateIndices == {6, 7}
\* The names journal entries carry.
EventNames == {"x"}

(***************************************************************************)
(* Machine words.  A byte is scaled down to ByteBits bits, so that a u64,  *)
(* a usize and an i64 (8 bytes) have WordBits bits.                        *)
(***************************************************************************)
ByteBits == 2
WordBits == 16

RECURSIVE Pow2(_)
Pow2(n) == IF n = 0 THEN 1 ELSE 2 * Pow2(n - 1)

\* 1 << 63, the top bit of a word.
TopBit == Pow2(WordBits - 1)

(***************************************************************************)
(* FileInfo (index.rs 27-52).  size_and_directory is one word: its top bit *)
(* is the directory flag, the bits below are the size.                     *)
(***************************************************************************)
\* size | (is_directory as u64) << 63
PackWord(size, is_directory) ==
    IF is_directory /\ (size \div TopBit) % 2 = 0 THEN size + TopBit ELSE size

\* The struct FileInfo::new builds (index.rs 36-40) once its assertion holds.
FileInfo_new(size, is_directory, parent, name) ==
    [name |-> name,
     parent |-> parent,
     size_and_directory |-> PackWord(size, is_directory)]

size(f) == f.size_and_directory % TopBit

is_directory(f) == (f.size_and_directory \div TopBit) % 2 = 1

(***************************************************************************)
(* NtfsVolumeIndex::find_by_index (index.rs 155-159).                      *)
(***************************************************************************)
find_by_index(t, index) ==
    IF index < Len(t) THEN t[index + 1] ELSE None

\* Vec::resize_with(new_len, Default::default): grows with None (never called to shrink).
resize_with(t, new_len) ==
    [i \in 1..new_len |-> IF i <= Len(t) THEN t[i] ELSE None]

(***************************************************************************)
(* Journal entries as process_journal_entries destructures them.           *)
(***************************************************************************)
FileCreate(m, d, p, n) ==
    [kind |-> "FileCreate", mft_index |-> m, is_directory |-> d,
     parent_mft_index |-> p, name |-> n]

Rename(m, n, p) ==
    [kind |-> "Rename", mft_index |-> m, new_name |-> n, new_parent_mft_index |-> p]

FileDelete(m) ==
    [kind |-> "FileDelete", index |-> m]

Events ==
    {FileCreate(m, d, p, n) : m \in CreateIndices, d \in BOOLEAN, p \in MftIndices, n \in EventNames}
    \cup {Rename(m, n, p) : m \in MftIndices, n \in EventNames, p \in MftIndices}
    \cup {FileDelete(m) : m \in MftIndices}

Min(S) == CHOOSE x \in S : \A y \in S : x <= y

RECURSIVE SeqsUpTo(_, _)
SeqsUpTo(S, n) ==
    IF n = 0 THEN {<< >>}
    ELSE LET shorter == SeqsUpTo(S, n - 1)
         IN shorter \cup {Append(s, x) : s \in {q \in shorter : Len(q) = n - 1}, x \in S}

Batches == SeqsUpTo(Events, MaxBatch)

(***************************************************************************)
(* The arms of process_journal_entries (index.rs 73-147).  Each takes the  *)
(* table and panic flag st = [infos, panicked] and one entry.              *)
(***************************************************************************)
\* A FileCreate arm without the test for an occupied slot.
FileCreateArm_overwrite(st, e) ==
    IF find_by_index(st.infos, e.parent_mft_index) = None THEN st
    ELSE LET grown == IF e.mft_index >= Len(st.infos)
                      THEN resize_with(st.infos, e.mft_index + 1)
                      ELSE st.infos
         IN [st EXCEPT !.infos =
                [grown EXCEPT ![e.mft_index + 1] =
                    Some(FileInfo_new(0, e.is_directory, e.parent_mft_index, e.name))]]

FileCreateArm(st, e) ==
    IF find_by_index(st.infos, e.mft_index) # None THEN st
    ELSE IF find_by_index(st.infos, e.parent_mft_index) = None THEN st
    ELSE LET grown == IF e.mft_index >= Len(st.infos)
                      THEN resize_with(st.infos, e.mft_index + 1)
                      ELSE st.infos
         IN [st EXCEPT !.infos =
                [grown EXCEPT ![e.mft_index + 1] =
                    Some(FileInfo_new(0, e.is_directory, e.parent_mft_index, e.name))]]

\* A Rename arm that writes a fresh entry into the slot.
RenameArm_recreate(st, e) ==
    IF find_by_index(st.infos, e.new_parent_mft_index) = None THEN st
    ELSE IF e.mft_index < Len(st.infos) /\ st.infos[e.mft_index + 1] # None
    THEN [st EXCEPT !.infos[e.mft_index + 1] =
             Some(FileInfo_new(0, FALSE, e.new_parent_mft_index, e.new_name))]
    ELSE st

RenameArm(st, e) ==
    IF find_by_index(st.infos, e.new_parent_mft_index) = None THEN st
    ELSE IF e.mft_index < Len(st.infos) /\ st.infos[e.mft_index + 1] # None
    THEN [st EXCEPT !.infos[e.mft_index + 1] =
             Some([Unwrap(st.infos[e.mft_index + 1]) EXCEPT
                      !.name = e.new_name,
                      !.parent = e.new_parent_mft_index])]
    ELSE st

\* A delete written as Vec::remove, which shifts the later slots down.
FileDeleteArm_remove(st, e) ==
    IF e.index >= Len(st.infos) THEN [st EXCEPT !.panicked = TRUE]
    ELSE [st EXCEPT !.infos =
             [i \in 1..(Len(st.infos) - 1) |->
                 IF i <= e.index THEN st.infos[i] ELSE st.infos[i + 1]]]

\* self.infos[*index as usize] = None: an index past the end panics.
FileDeleteArm(st, e) ==
    IF e.index >= Len(st.infos) THEN [st EXCEPT !.panicked = TRUE]
    ELSE [st EXCEPT !.infos[e.index + 1] = None]

ProcessEntry(st, e) ==
    CASE e.kind = "FileCreate" -> FileCreateArm(st, e)
      [] e.kind = "Rename" -> RenameArm(st, e)
      [] e.kind = "FileDelete" -> FileDeleteArm(st, e)

\* for e in entries { match e { ... } }: a panic ends the loop.
RECURSIVE ProcessFrom(_, _, _)
ProcessFrom(st, entries, k) ==
    IF k > Len(entries) \/ st.panicked THEN st
    ELSE ProcessFrom(ProcessEntry(st, entries[k]), entries, k + 1)

process_journal_entries(t, entries) ==
    ProcessFrom([infos |-> t, panicked |-> FALSE], entries, 1)

(***************************************************************************)
(* The index after construction: the root directory at slot 5 and a file   *)
(* with a size below it at slot 6.                                         *)
(***************************************************************************)
RootInfo == FileInfo_new(0, TRUE, ROOT_INDEX, ".")

InitTable ==
    <<None, None, None, None, None, Some(RootInfo),
      Some(FileInfo_new(1024, FALSE, ROOT_INDEX, "file.bin"))>>

Live(t) == {i \in 0..(Len(t) - 1) : t[i + 1] # None}

(***************************************************************************)
(* Actions of the index.                                                   *)
(***************************************************************************)
ProcessJournalEntries ==
    /\ pc = "idle"
    /\ ~panicked
    /\ \E entries \in Batches :
          LET st == process_journal_entries(infos, entries)
          IN /\ infos' = st.infos
             /\ panicked' = st.panicked
    /\ UNCHANGED <<pc, current, yielded>>

\* iter_with_parents (index.rs 180-188): the iterator borrows the index.
IterWithParents ==
    /\ pc = "idle"
    /\ ~panicked
    /\ \E i \in Live(infos) : current' = Some(i)
    /\ pc' = "iter"
    /\ yielded' = << >>
    /\ UNCHANGED <<infos, panicked>>

\* HierarchyIter::next (index.rs 223-237).  The `?` on a missing parent
\* returns None before self.current is assigned and before next is returned.
HierarchyIterNext ==
    /\ pc = "iter"
    /\ Len(yielded) < MaxWalk
    /\ IF current = None
       THEN /\ pc' = "done"
            /\ UNCHANGED <<current, yielded>>
       ELSE LET cur == Unwrap(infos[Unwrap(current) + 1])
            IN IF cur.parent = ROOT_INDEX
               THEN /\ current' = None
                    /\ yielded' = Append(yielded, Unwrap(current))
                    /\ pc' = "iter"
               ELSE IF find_by_index(infos, cur.parent) = None
               THEN /\ pc' = "done"
                    /\ UNCHANGED <<current, yielded>>
               ELSE /\ current' = Some(cur.parent)
                    /\ yielded' = Append(yielded, Unwrap(current))
                    /\ pc' = "iter"
    /\ UNCHANGED <<infos, panicked>>

\* The iterator is dropped and the borrow of the index ends.
DropIter ==
    /\ pc \in {"iter", "done"}
    /\ pc' = "idle"
    /\ current' = None
    /\ yielded' = << >>
    /\ UNCHANGED <<infos, panicked>>


(***************************************************************************)
(* compute_full_path (index.rs 161-178).  A String is the sequence of its  *)
(* characters.                                                             *)
(***************************************************************************)
\* Volume.id (volume.rs 13-15) of the indexed volume.
volume_id == "c"

\* char::to_ascii_uppercase on the drive letters of the model.
to_ascii_uppercase(c) ==
    CASE c = "c" -> "C"
      [] c = "d" -> "D"
      [] OTHER -> c

\* The characters of the names that occur in the model.
chars(name) ==
    CASE name = "." -> <<".">>
      [] name = "x" -> <<"x">>
      [] name = "file.bin" -> <<"f", "i", "l", "e", ".", "b", "i", "n">>

\* The items a HierarchyIter with self.current = cur returns in at most n
\* calls of next that return Some, and whether it has returned None by then.
RECURSIVE HierarchyWalk(_, _, _)
HierarchyWalk(t, cur, n) ==
    IF cur = None THEN [items |-> << >>, ended |-> TRUE]
    ELSE IF n = 0 THEN [items |-> << >>, ended |-> FALSE]
    ELSE LET f == Unwrap(t[Unwrap(cur) + 1])
         IN IF f.parent = ROOT_INDEX
            THEN [items |-> <<Unwrap(cur)>>, ended |-> TRUE]
            ELSE IF find_by_index(t, f.parent) = None
            THEN [items |-> << >>, ended |-> TRUE]
            ELSE LET rest == HierarchyWalk(t, Some(f.parent), n - 1)
                 IN [items |-> <<Unwrap(cur)>> \o rest.items, ended |-> rest.ended]

\* iter_with_parents(file_info).for_each(..): a walk that has not ended after
\* Len(t) items is in a cycle of parents and never ends.
iter_with_parents(t, i) == HierarchyWalk(t, Some(i), Len(t))

\* out after path[from..].iter().for_each(|s| { out.push('\\'); out.push_str(s) }).
RECURSIVE PushNames(_, _, _, _)
PushNames(out, t, path, from) ==
    IF from > Len(path) THEN out
    ELSE PushNames(out \o <<"\\">> \o chars(Unwrap(t[path[from] + 1]).name),
                   t, path, from + 1)

Rev(s) == [k \in 1..Len(s) |-> s[Len(s) + 1 - k]]

\* A compute_full_path that joins the names in the order of the walk.
compute_full_path_no_rev(t, i) ==
    LET walk == iter_with_parents(t, i)
    IN IF ~walk.ended THEN [returns |-> FALSE, out |-> << >>]
       ELSE [returns |-> TRUE,
             out |-> PushNames(<<to_ascii_uppercase(volume_id), ":">>, t, walk.items, 1)]

\* compute_full_path of the entry at slot i: the String returned, or no
\* return when the walk never ends.
compute_full_path(t, i) ==
    LET walk == iter_with_parents(t, i)
    IN IF ~walk.ended THEN [returns |-> FALSE, out |-> << >>]
       ELSE [returns |-> TRUE,
             out |-> PushNames(<<to_ascii_uppercase(volume_id), ":">>, t, Rev(walk.items), 1)]

(***************************************************************************)
(* find_by_name (index.rs 149-153) over par_iter (index.rs 194-199).  The  *)
(* scan splits the slots into chunks of at least min_len slots; a split is *)
(* the set of slots at which a chunk other than the first starts.  The     *)
(* chunks are examined in any order.                                       *)
(***************************************************************************)
\* with_min_len(self.infos.len() / PAR_ITER_CHUNK_COUNT); a chunk has a slot at least.
min_len(t) ==
    IF Len(t) \div PAR_ITER_CHUNK_COUNT > 1 THEN Len(t) \div PAR_ITER_CHUNK_COUNT ELSE 1

ChunkStarts(cuts) == {0} \cup cuts

\* The slot after the last slot of the chunk that starts at lo.
ChunkEnd(t, cuts, lo) == Min({b \in cuts \cup {Len(t)} : b > lo})

Splits(t) ==
    {cuts \in SUBSET (1..(Len(t) - 1)) :
        /\ Cardinality(cuts) < MaxChunks
        /\ \A lo \in ChunkStarts(cuts) : ChunkEnd(t, cuts, lo) - lo >= min_len(t)}

\* The orders in which the chunks of a split are examined.
Orders(cuts) ==
    {order \in [1..Cardinality(ChunkStarts(cuts)) -> ChunkStarts(cuts)] :
        \A j \in DOMAIN order : \A k \in DOMAIN order : j # k => order[j] # order[k]}

\* matches!(info, Some(info) if info.name == name) on the slots lo..hi-1.
Matches(t, name, lo, hi) ==
    {i \in lo..(hi - 1) : t[i + 1] # None /\ Unwrap(t[i + 1]).name = name}

\* A scan that keeps the match it found first in time (find_any).
RECURSIVE find_any(_, _, _, _, _, _)
find_any(t, name, cuts, order, k, best) ==
    IF k > Len(order) THEN best
    ELSE LET hits == Matches(t, name, order[k], ChunkEnd(t, cuts, order[k]))
         IN find_any(t, name, cuts, order, k + 1,
                IF best # None \/ hits = {} THEN best ELSE Some(Min(hits)))

\* find_first: the k-th examined chunk is skipped when a match to its left is
\* known; otherwise its first match replaces a known match to its right.
RECURSIVE find_first(_, _, _, _, _, _)
find_first(t, name, cuts, order, k, best) ==
    IF k > Len(order) THEN best
    ELSE LET lo == order[k]
             hits == Matches(t, name, lo, ChunkEnd(t, cuts, lo))
         IN find_first(t, name, cuts, order, k + 1,
                IF best # None /\ Unwrap(best) < lo THEN best
                ELSE IF hits = {} THEN best
                ELSE IF best = None \/ Min(hits) < Unwrap(best) THEN Some(Min(hits))
                ELSE best)

\* find_by_name under one split and one order; the entry found is named by its slot.
find_by_name(t, name, cuts, order) == find_first(t, name, cuts, order, 1, None)

(***************************************************************************)
(* The journal reader (journal.rs).                                        *)
(***************************************************************************)
MAX_HISTORY_SIZE == 1000

\* The reason bits of READ_USN_JOURNAL_DATA_V1.ReasonMask (journal.rs 68-71);
\* a record's Reason is the set of the bits it has.
USN_REASON_FILE_CREATE == "FILE_CREATE"
USN_REASON_FILE_DELETE == "FILE_DELETE"
USN_REASON_RENAME_NEW_NAME == "RENAME_NEW_NAME"
USN_REASON_RENAME_OLD_NAME == "RENAME_OLD_NAME"

\* JournalEntry (journal.rs 247-255).
JournalEntry_FileCreate(path) == [kind |-> "FileCreate", path |-> path]
JournalEntry_FileDelete(path) == [kind |-> "FileDelete", path |-> path]
JournalEntry_Rename(old_path, new_path) ==
    [kind |-> "Rename", old_path |-> old_path, new_path |-> new_path]

\* UnmatchedRename (journal.rs 257-260).
UnmatchedRename(file_id, old_path) == [file_id |-> file_id, old_path |-> old_path]

\* A USN_RECORD_V3 as read_entries reads it: the header fields, Reason,
\* FileReferenceNumber, and full_path, what Journal::compute_full_path
\* (journal.rs 168-225) returns for the record: Some(path), or None for Err.
UsnRecord(len, version, reason, file_id, full_path) ==
    [RecordLength |-> len, MajorVersion |-> version, Reason |-> reason,
     FileReferenceNumber |-> file_id, full_path |-> full_path]

FileIds == {1, 2}
Paths == {"p", "q"}

\* The records of the model's buffers.  Every Reason has a bit of the
\* ReasonMask, so the unreachable!() arm (journal.rs 136) is never taken.
Records ==
    {UsnRecord(64, 3, {r}, f, Some(p)) :
        r \in {USN_REASON_RENAME_OLD_NAME, USN_REASON_RENAME_NEW_NAME},
        f \in FileIds, p \in Paths}
    \cup {UsnRecord(64, 3, r, 1, Some("p")) :
        r \in {{USN_REASON_FILE_CREATE}, {USN_REASON_FILE_DELETE},
               {USN_REASON_FILE_CREATE, USN_REASON_FILE_DELETE},
               {USN_REASON_FILE_CREATE, USN_REASON_RENAME_NEW_NAME}}}
    \cup {UsnRecord(0, 3, {USN_REASON_FILE_CREATE}, 1, Some("p")),
          UsnRecord(64, 2, {USN_REASON_FILE_CREATE}, 1, Some("p")),
          UsnRecord(64, 3, {USN_REASON_FILE_CREATE}, 1, None)}

\* What DeviceIoControl(FSCTL_READ_USN_JOURNAL) hands back (journal.rs 80-96):
\* failure, or a buffer of a leading NextUsn and the records in bytes_read.
JournalBuffer(ok, usn, records) == [ok |-> ok, NextUsn |-> usn, records |-> records]

Buffers ==
    {JournalBuffer(FALSE, 0, << >>)}
    \cup {JournalBuffer(TRUE, usn, records) :
            usn \in 0..MaxUsn, records \in SeqsUpTo(Records, MaxRecords)}

Ok(entries) == [ok |-> TRUE, entries |-> entries]
Err == [ok |-> FALSE, entries |-> << >>]

\* A match_rename that takes the matched entry out of the queue.
match_rename_remove(renames, new_path, file_id) ==
    LET hits == {i \in 1..Len(renames) : renames[i].file_id = file_id}
    IN IF hits = {}
       THEN [ok |-> FALSE, entry |-> None, unmatched_renames |-> renames]
       ELSE [ok |-> TRUE,
             entry |-> Some(JournalEntry_Rename(renames[Min(hits)].old_path, new_path)),
             unmatched_renames |->
                 [i \in 1..(Len(renames) - 1) |->
                     IF i < Min(hits) THEN renames[i] ELSE renames[i + 1]]]

\* Journal::match_rename (journal.rs 149-166): the first queued rename of the
\* file, which stays queued; an error when there is none.
match_rename(renames, new_path, file_id) ==
    LET hits == {i \in 1..Len(renames) : renames[i].file_id = file_id}
    IN IF hits = {}
       THEN [ok |-> FALSE, entry |-> None, unmatched_renames |-> renames]
       ELSE [ok |-> TRUE,
             entry |-> Some(JournalEntry_Rename(renames[Min(hits)].old_path, new_path)),
             unmatched_renames |-> renames]

\* journal.rs 121-128: pop_front at capacity, then push_back.
push_unmatched(renames, record) ==
    Append(IF Len(renames) >= MAX_HISTORY_SIZE THEN Tail(renames) ELSE renames,
           UnmatchedRename(record.FileReferenceNumber, Unwrap(record.full_path)))

\* The while loop of read_entries (journal.rs 108-143) from record k on.
\* j = [next_usn, unmatched_renames, entries]; an error drops the entries.
RECURSIVE ReadRecords(_, _, _)
ReadRecords(j, records, k) ==
    IF k > Len(records)
    THEN [next_usn |-> j.next_usn, unmatched_renames |-> j.unmatched_renames,
          result |-> Ok(j.entries)]
    ELSE LET record == records[k]
             failed == [next_usn |-> j.next_usn,
                        unmatched_renames |-> j.unmatched_renames,
                        result |-> Err]
         IN IF record.RecordLength = 0 \/ record.MajorVersion # 3 THEN failed
            ELSE IF record.full_path = None THEN failed
            ELSE IF USN_REASON_RENAME_OLD_NAME \in record.Reason
            THEN ReadRecords(
                     [j EXCEPT !.unmatched_renames = push_unmatched(@, record)],
                     records, k + 1)
            ELSE IF USN_REASON_FILE_CREATE \in record.Reason
            THEN ReadRecords(
                     [j EXCEPT !.entries =
                         Append(@, JournalEntry_FileCreate(Unwrap(record.full_path)))],
                     records, k + 1)
            ELSE IF USN_REASON_FILE_DELETE \in record.Reason
            THEN ReadRecords(
                     [j EXCEPT !.entries =
                         Append(@, JournalEntry_FileDelete(Unwrap(record.full_path)))],
                     records, k + 1)
            ELSE LET m == match_rename(j.unmatched_renames,
                                       Unwrap(record.full_path),
                                       record.FileReferenceNumber)
                 IN IF ~m.ok THEN failed
                    ELSE ReadRecords(
                             [j EXCEPT !.entries = Append(@, Unwrap(m.entry)),
                                       !.unmatched_renames = m.unmatched_renames],
                             records, k + 1)

\* A read_entries that skips only the buffers whose NextUsn is zero.
read_entries_zero_only(j, buf) ==
    IF ~buf.ok
    THEN [next_usn |-> j.next_usn, unmatched_renames |-> j.unmatched_renames,
          result |-> Err]
    ELSE IF buf.NextUsn = 0
    THEN [next_usn |-> j.next_usn, unmatched_renames |-> j.unmatched_renames,
          result |-> Ok(<< >>)]
    ELSE ReadRecords([next_usn |-> buf.NextUsn,
                      unmatched_renames |-> j.unmatched_renames,
                      entries |-> << >>],
                     buf.records, 1)

\* A read_entries that puts the cursor back when the loop fails.
read_entries_restore(j, buf) ==
    IF ~buf.ok
    THEN [next_usn |-> j.next_usn, unmatched_renames |-> j.unmatched_renames,
          result |-> Err]
    ELSE IF buf.NextUsn = 0 \/ buf.NextUsn < j.next_usn
    THEN [next_usn |-> j.next_usn, unmatched_renames |-> j.unmatched_renames,
          result |-> Ok(<< >>)]
    ELSE LET after == ReadRecords([next_usn |-> buf.NextUsn,
                                   unmatched_renames |-> j.unmatched_renames,
                                   entries |-> << >>],
                                  buf.records, 1)
         IN IF after.result.ok THEN after ELSE [after EXCEPT !.next_usn = j.next_usn]

\* Journal::read_entries (journal.rs 64-147) on the journal state
\* j = [next_usn, unmatched_renames] and the buffer the OS returned.
read_entries(j, buf) ==
    IF ~buf.ok
    THEN [next_usn |-> j.next_usn, unmatched_renames |-> j.unmatched_renames,
          result |-> Err]
    ELSE IF buf.NextUsn = 0 \/ buf.NextUsn < j.next_usn
    THEN [next_usn |-> j.next_usn, unmatched_renames |-> j.unmatched_renames,
          result |-> Ok(<< >>)]
    ELSE ReadRecords([next_usn |-> buf.NextUsn,
                      unmatched_renames |-> j.unmatched_renames,
                      entries |-> << >>],
                     buf.records, 1)

JournalState == [next_usn |-> next_usn, unmatched_renames |-> unmatched_renames]

(***************************************************************************)
(* Actions of the journal reader.                                          *)
(***************************************************************************)
ReadEntries ==
    /\ jpc = "idle"
    /\ \E buf \in Buffers :
          LET after == read_entries(JournalState, buf)
          IN /\ Len(after.unmatched_renames) <= MaxFifo
             /\ next_usn' = after.next_usn
             /\ unmatched_renames' = after.unmatched_renames
             /\ ret' = Some(after.result)
             /\ buffer' = Some(buf)
    /\ jpc' = "returned"

\* The caller is done with the batch; the next poll may start.
ReturnToCaller ==
    /\ jpc = "returned"
    /\ jpc' = "idle"
    /\ buffer' = None
    /\ ret' = None
    /\ UNCHANGED <<next_usn, unmatched_renames>>

\* read_entries on a buffer that holds one RENAME_OLD_NAME record of a file
\* not seen before (the file's number is the cursor), with the next NextUsn.
OldNameBuffer(usn) ==
    JournalBuffer(TRUE, usn + 1,
                  <<UsnRecord(64, 3, {USN_REASON_RENAME_OLD_NAME}, usn, Some("p"))>>)

ReadOldName ==
    /\ jpc = "idle"
    /\ next_usn <= MaxPushes
    /\ LET buf == OldNameBuffer(next_usn)
           after == read_entries(JournalState, buf)
       IN /\ next_usn' = after.next_usn
          /\ unmatched_renames' = after.unmatched_renames
          /\ ret' = Some(after.result)
          /\ buffer' = Some(buf)
    /\ jpc' = "returned"

(***************************************************************************)
(* Construction: NtfsVolumeIndex::new (index.rs 56-71), process_mft_data   *)
(* (index.rs 240-306) and read_runs_from_disk (index.rs 308-360).          *)
(***************************************************************************)
Workers == 1..NumWorkers

\* What the OS does with the overlapped ReadFile of one run.  The code sees
\* only whether ReadFile returned an error (index.rs 329) and whether the
\* wait on the events returned WAIT_OBJECT_0 (index.rs 346):
\*   "no_event"       CreateEventW failed (index.rs 316)
\*   "sync_ok"        ReadFile returned Ok: the read completed at once
\*   "pending_ok"     ReadFile returned an error, the read completed later
\*   "pending_slow"   as before, but not within the timeout of the wait
\*   "pending_error"  ReadFile returned an error, the read completed later
\*                    with an error: completion signals the event
\*   "rejected"       ReadFile returned an error and no read was started:
\*                    the event is never signalled
ReadOutcomes ==
    {"no_event", "sync_ok", "pending_ok", "pending_slow", "pending_error", "rejected"}

res_is_err(read) == read # "sync_ok"

Signalled(read) == read \in {"pending_ok", "pending_error"}

ReadFailed(read) == read \in {"pending_error", "rejected"}

\* The environment of one worker: whether create_read_handle succeeds, the
\* outcome of the read of each run of its run group, and whether closing a
\* handle succeeds.
WorkerEnvs ==
    {[handle_ok |-> h, runs |-> r, close_ok |-> c] :
        h \in BOOLEAN, r \in SeqsUpTo(ReadOutcomes, MaxRuns), c \in BOOLEAN}

ThreadOk(slots) == [ok |-> TRUE, slots |-> slots]
ThreadErr == [ok |-> FALSE, slots |-> << >>]

\* The handles of a call: the volume handle and the event of the k-th run.
VolumeHandle == [kind |-> "volume", run |-> 0]
EventHandle(k) == [kind |-> "event", run |-> k]

\* crate::ntfs::try_close_handle(h)? on the set of handles no close was yet
\* called on: the call takes h out of the set, and `?` returns when it fails.
try_close_handle(unclosed, h, close_ok) ==
    [ok |-> close_ok, unclosed |-> unclosed \ {h}]

\* The for loop of read_runs_from_disk (index.rs 313-337) from run k on.
\* events is the Vec of events to wait for (named by their runs), unclosed
\* the handles opened and not yet handed to a close.
RECURSIVE ReadRuns(_, _, _, _)
ReadRuns(env, k, events, unclosed) ==
    IF k > Len(env.runs) THEN [ok |-> TRUE, events |-> events, unclosed |-> unclosed]
    ELSE IF env.runs[k] = "no_event"
    THEN [ok |-> FALSE, events |-> events, unclosed |-> unclosed]
    ELSE IF res_is_err(env.runs[k])
    THEN ReadRuns(env, k + 1, Append(events, k), unclosed \cup {EventHandle(k)})
    ELSE LET closed == try_close_handle(unclosed \cup {EventHandle(k)}, EventHandle(k),
                                        env.close_ok)
         IN IF ~closed.ok
            THEN [ok |-> FALSE, events |-> events, unclosed |-> closed.unclosed]
            ELSE ReadRuns(env, k + 1, events, closed.unclosed)

\* events.iter().chain(once(&handle)).try_for_each(|&e| try_close_handle(e))
\* (index.rs 341-344) from the k-th handle of the chain on.
RECURSIVE CloseAll(_, _, _, _)
CloseAll(env, chain, k, unclosed) ==
    IF k > Len(chain) THEN [ok |-> TRUE, unclosed |-> unclosed]
    ELSE LET closed == try_close_handle(unclosed, chain[k], env.close_ok)
         IN IF ~closed.ok THEN closed
            ELSE CloseAll(env, chain, k + 1, closed.unclosed)

\* read_runs_from_disk: whether it returns Ok, the bytes of each run ("data"
\* when the read brought them in, "garbage" when it did not), and the handles
\* it opened and never handed to a close.
read_runs_from_disk(env) ==
    IF ~env.handle_ok THEN [ok |-> FALSE, slots |-> << >>, unclosed |-> {}]
    ELSE LET loop == ReadRuns(env, 1, << >>, {VolumeHandle})
         IN IF ~loop.ok THEN [ok |-> FALSE, slots |-> << >>, unclosed |-> loop.unclosed]
            ELSE LET wait_object_0 ==
                         /\ loop.events # << >>
                         /\ \A j \in 1..Len(loop.events) : Signalled(env.runs[loop.events[j]])
                     closed == CloseAll(env,
                                   [j \in 1..Len(loop.events) |-> EventHandle(loop.events[j])]
                                       \o <<VolumeHandle>>,
                                   1, loop.unclosed)
                 IN IF ~closed.ok \/ ~wait_object_0
                    THEN [ok |-> FALSE, slots |-> << >>, unclosed |-> closed.unclosed]
                    ELSE [ok |-> TRUE,
                          slots |-> [k \in 1..Len(env.runs) |->
                                        IF ReadFailed(env.runs[k]) THEN "garbage" ELSE "data"],
                          unclosed |-> closed.unclosed]

\* The closure of a worker thread (index.rs 253-285).
worker_closure(env) ==
    IF env.runs = << >> THEN ThreadOk(<< >>)
    ELSE LET read == read_runs_from_disk(env)
         IN IF read.ok THEN ThreadOk(read.slots) ELSE ThreadErr

(***************************************************************************)
(* The other functions that open OS handles.  Each is given by what it     *)
(* returns and the handles it opened and never handed to a close.          *)
(***************************************************************************)
\* Volume::query_volume_data (volume.rs 33-57).
query_volume_data(env) ==
    IF ~env.handle_ok THEN [ok |-> FALSE, unclosed |-> {}]
    ELSE LET closed == try_close_handle({VolumeHandle}, VolumeHandle, env.close_ok)
         IN IF ~closed.ok THEN [ok |-> FALSE, unclosed |-> closed.unclosed]
            ELSE [ok |-> env.ioctl_ok, unclosed |-> closed.unclosed]

\* MftFile::new (mft.rs 17-46): the wait that fails returns before CloseHandle.
MftFile_new(env) ==
    IF ~env.handle_ok THEN [ok |-> FALSE, unclosed |-> {}]
    ELSE IF ~env.wait_object_0 THEN [ok |-> FALSE, unclosed |-> {VolumeHandle}]
    ELSE [ok |-> TRUE, unclosed |-> {}]

\* Journal::new (journal.rs 34-62): on success the Journal owns the handle.
Journal_new(env) ==
    IF ~env.handle_ok THEN [ok |-> FALSE, unclosed |-> {}]
    ELSE IF ~env.ioctl_ok THEN [ok |-> FALSE, unclosed |-> {VolumeHandle}]
    ELSE [ok |-> TRUE, unclosed |-> {VolumeHandle}]

\* The outcomes of the OS calls of these three functions.
HandleEnvs ==
    {[handle_ok |-> h, ioctl_ok |-> i, wait_object_0 |-> w, close_ok |-> c] :
        h \in BOOLEAN, i \in BOOLEAN, w \in BOOLEAN, c \in BOOLEAN}

NoCall == [fn |-> "none", args |-> << >>, out |-> << >>]

Called(fn, args, out) == [fn |-> fn, args |-> args, out |-> out]

CallQueryVolumeData ==
    /\ call = NoCall
    /\ \E env \in HandleEnvs :
       call' = Called("query_volume_data", <<env>>, query_volume_data(env))

CallMftFileNew ==
    /\ call = NoCall
    /\ \E env \in HandleEnvs : call' = Called("MftFile::new", <<env>>, MftFile_new(env))

CallJournalNew ==
    /\ call = NoCall
    /\ \E env \in HandleEnvs : call' = Called("Journal::new", <<env>>, Journal_new(env))

CallReadRunsFromDisk ==
    /\ call = NoCall
    /\ \E env \in WorkerEnvs :
       call' = Called("read_runs_from_disk", <<env>>, read_runs_from_disk(env))

HandleNext ==
    \/ CallQueryVolumeData /\ UNCHANGED indexVars /\ UNCHANGED journalVars /\ UNCHANGED buildVars
    \/ CallMftFileNew /\ UNCHANGED indexVars /\ UNCHANGED journalVars /\ UNCHANGED buildVars
    \/ CallJournalNew /\ UNCHANGED indexVars /\ UNCHANGED journalVars /\ UNCHANGED buildVars
    \/ CallReadRunsFromDisk /\ UNCHANGED indexVars /\ UNCHANGED journalVars /\ UNCHANGED buildVars

\* The read or the wait of a worker with this environment fails.
ReadOrWaitFails(env) ==
    /\ env.handle_ok
    /\ \A k \in 1..Len(env.runs) : env.runs[k] # "no_event"
    /\ \E k \in 1..Len(env.runs) : ReadFailed(env.runs[k]) \/ env.runs[k] = "pending_slow"

\* A worker thread: its state, what its closure returned, and whether its
\* read or wait failed.
NotSpawned == [state |-> "not_spawned", result |-> None, failed |-> FALSE]

BuildStart == [pc |-> "new", joined |-> 0, collected |-> << >>, result |-> None]

BuildOk(slots) == [ok |-> TRUE, infos |-> Some(slots)]
BuildErr == [ok |-> FALSE, infos |-> None]

\* query_volume_data, MftFile::new, read_data_runs or the query_volume_data of
\* process_mft_data fails: `?` returns the error before any thread exists.
NewFailsEarly ==
    /\ build.pc = "new"
    /\ build' = [build EXCEPT !.pc = "returned", !.result = Some(BuildErr)]
    /\ UNCHANGED workers

\* "Spawn all threads" (index.rs 250-287).
SpawnThreads ==
    /\ build.pc = "new"
    /\ workers' = [w \in Workers |-> [NotSpawned EXCEPT !.state = "running"]]
    /\ build' = [build EXCEPT !.pc = "joining"]

\* A worker thread runs to its end in the environment it meets.
WorkerRun(w) ==
    /\ workers[w].state = "running"
    /\ \E env \in WorkerEnvs :
          workers' = [workers EXCEPT ![w] = [state |-> "finished",
                                            result |-> Some(worker_closure(env)),
                                            failed |-> ReadOrWaitFails(env)]]
    /\ UNCHANGED build

\* "Join all threads" (index.rs 290-294): t.join() of the next thread; collect
\* into Result stops at the first Err.
JoinThread ==
    /\ build.pc = "joining"
    /\ build.joined < NumWorkers
    /\ workers[build.joined + 1].state = "finished"
    /\ LET r == Unwrap(workers[build.joined + 1].result)
       IN build' = IF r.ok
                   THEN [build EXCEPT !.joined = @ + 1, !.collected = Append(@, r.slots)]
                   ELSE [build EXCEPT !.pc = "scope_end", !.result = Some(BuildErr)]
    /\ UNCHANGED workers

\* Every thread is joined: the closure of the scope returns Ok.
JoinDone ==
    /\ build.pc = "joining"
    /\ build.joined = NumWorkers
    /\ build' = [build EXCEPT !.pc = "scope_end"]
    /\ UNCHANGED workers

RECURSIVE Concat(_, _)
Concat(vecs, k) == IF k > Len(vecs) THEN << >> ELSE vecs[k] \o Concat(vecs, k + 1)

\* std::thread::scope returns once every thread spawned in it has finished;
\* then `?` returns the error, or the fold (index.rs 296-303) builds the table.
ScopeEnd ==
    /\ build.pc = "scope_end"
    /\ \A w \in Workers : workers[w].state = "finished"
    /\ build' = [build EXCEPT
                    !.pc = "returned",
                    !.result = IF build.result # None THEN build.result
                               ELSE Some(BuildOk(Concat(build.collected, 1)))]
    /\ UNCHANGED workers

BuildNext ==
    \/ NewFailsEarly /\ UNCHANGED indexVars /\ UNCHANGED journalVars /\ UNCHANGED call
    \/ SpawnThreads /\ UNCHANGED indexVars /\ UNCHANGED journalVars /\ UNCHANGED call
    \/ \E w \in Workers : WorkerRun(w) /\ UNCHANGED indexVars /\ UNCHANGED journalVars /\ UNCHANGED call
    \/ JoinThread /\ UNCHANGED indexVars /\ UNCHANGED journalVars /\ UNCHANGED call
    \/ JoinDone /\ UNCHANGED indexVars /\ UNCHANGED journalVars /\ UNCHANGED call
    \/ ScopeEnd /\ UNCHANGED indexVars /\ UNCHANGED journalVars /\ UNCHANGED call

Init ==
    /\ infos = InitTable
    /\ panicked = FALSE
    /\ pc = "idle"
    /\ current = None
    /\ yielded = << >>
    /\ next_usn = 1
    /\ unmatched_renames = << >>
    /\ jpc = "idle"
    /\ buffer = None
    /\ ret = None
    /\ build = BuildStart
    /\ workers = [w \in Workers |-> NotSpawned]
    /\ call = NoCall

Next ==
    \/ ProcessJournalEntries /\ UNCHANGED journalVars /\ UNCHANGED buildVars /\ UNCHANGED call
    \/ IterWithParents /\ UNCHANGED journalVars /\ UNCHANGED buildVars /\ UNCHANGED call
    \/ HierarchyIterNext /\ UNCHANGED journalVars /\ UNCHANGED buildVars /\ UNCHANGED call
    \/ DropIter /\ UNCHANGED journalVars /\ UNCHANGED buildVars /\ UNCHANGED call

Spec == Init /\ [][Next]_vars

JournalNext ==
    \/ ReadEntries /\ UNCHANGED indexVars /\ UNCHANGED buildVars /\ UNCHANGED call
    \/ ReturnToCaller /\ UNCHANGED indexVars /\ UNCHANGED buildVars /\ UNCHANGED call

\* Journal::new (journal.rs 56-61) takes the cursor from the journal: 0 when
\* the journal is empty.
JournalInit ==
    /\ infos = InitTable
    /\ panicked = FALSE
    /\ pc = "idle"
    /\ current = None
    /\ yielded = << >>
    /\ next_usn \in {0, 1}
    /\ unmatched_renames = << >>
    /\ jpc = "idle"
    /\ buffer = None
    /\ ret = None
    /\ build = BuildStart
    /\ workers = [w \in Workers |-> NotSpawned]
    /\ call = NoCall

JournalSpec == JournalInit /\ [][JournalNext]_vars

\* The journal reader fed a long run of old names, one record per read.
FifoNext ==
    \/ ReadOldName /\ UNCHANGED indexVars /\ UNCHANGED buildVars /\ UNCHANGED call
    \/ ReturnToCaller /\ UNCHANGED indexVars /\ UNCHANGED buildVars /\ UNCHANGED call

FifoSpec == Init /\ [][FifoNext]_vars

BuildSpec == Init /\ [][BuildNext]_vars

HandleSpec == Init /\ [][HandleNext]_vars

(***************************************************************************)
(* Properties of the index.                                                *)
(***************************************************************************)
Slots(t) == 0..(Len(t) - 1)

\* Applying the batch a second time; a panic in the first application ends the program.
ApplyTwice(t, entries) ==
    LET once == process_journal_entries(t, entries)
    IN IF once.panicked THEN once ELSE process_journal_entries(once.infos, entries)

RemoveAt(s, i) == [k \in 1..(Len(s) - 1) |-> IF k < i THEN s[k] ELSE s[k + 1]]

\* C1: after any sequence of journal batches every live slot other than 5 has
\* a parent slot that is occupied and has its directory bit set.
C1_ParentIsLiveDirectory ==
    \A i \in Live(infos) \ {ROOT_INDEX} :
        LET parent == find_by_index(infos, Unwrap(infos[i + 1]).parent)
        IN parent # None /\ is_directory(Unwrap(parent))

\* C2: the ancestor walk of a live entry never loops: no slot is returned twice
\* (the table is frozen during the walk, so a repeated slot repeats for ever).
C2_WalkNeverLoops ==
    \A j \in 1..Len(yielded) : \A k \in 1..Len(yielded) :
        j < k => yielded[j] # yielded[k]

\* C3: after any sequence of journal batches slot 5 is still occupied, still a
\* directory and still its own parent.
C3_RootStays ==
    /\ find_by_index(infos, ROOT_INDEX) # None
    /\ is_directory(Unwrap(find_by_index(infos, ROOT_INDEX)))
    /\ Unwrap(find_by_index(infos, ROOT_INDEX)).parent = ROOT_INDEX

\* C4: no live entry other than the root is its own parent.
C4_NoSelfParent ==
    \A i \in Live(infos) \ {ROOT_INDEX} : Unwrap(infos[i + 1]).parent # i

\* C5: a Delete for any MFT index m completes without failure, leaves slot m
\* empty and every other slot unchanged, whether slot m is occupied, empty or
\* past the end of the table, and the rest of the batch is still applied.
C5_DeleteCompletes ==
    /\ ~panicked
    /\ \A m \in MftIndices :
          LET after == process_journal_entries(infos, <<FileDelete(m)>>)
          IN /\ ~after.panicked
             /\ find_by_index(after.infos, m) = None
             /\ \A i \in (Slots(infos) \cup Slots(after.infos)) \ {m} :
                    find_by_index(after.infos, i) = find_by_index(infos, i)
             /\ \A e \in Events :
                    process_journal_entries(infos, <<FileDelete(m), e>>)
                        = process_journal_entries(after.infos, <<e>>)

\* C6 as claimed: applying any batch twice in a row yields the same table as
\* applying it once.
C6_BatchIdempotent ==
    \A entries \in Batches :
        ApplyTwice(infos, entries).infos = process_journal_entries(infos, entries).infos

\* C6 as amended: applying one entry twice in a row yields the same table as
\* applying it once.
C6_EntryIdempotent ==
    \A e \in Events :
        ApplyTwice(infos, <<e>>).infos = process_journal_entries(infos, <<e>>).infos

\* A FileCreate has taken effect at slot 7, beyond the initial table, and
\* applying it again changes nothing.
C6_Witness ==
    \E e \in Events :
        /\ e.kind = "FileCreate"
        /\ e.mft_index >= Len(InitTable)
        /\ find_by_index(infos, e.mft_index)
              = Some(FileInfo_new(0, e.is_directory, e.parent_mft_index, e.name))
        /\ process_journal_entries(infos, <<e>>) = [infos |-> infos, panicked |-> FALSE]

\* C7: a Create for m followed later in the same batch by a Delete for m are
\* both removed before the batch takes effect: the batch leaves the index as
\* the batch without the two entries does.
C7_CreateDeleteCoalesced ==
    \A entries \in Batches :
        \A i \in 1..Len(entries) : \A j \in 1..Len(entries) :
            (/\ i < j
             /\ entries[i].kind = "FileCreate"
             /\ entries[j].kind = "FileDelete"
             /\ entries[j].index = entries[i].mft_index)
            => process_journal_entries(infos, entries)
                   = process_journal_entries(infos, RemoveAt(RemoveAt(entries, j), i))

(***************************************************************************)
(* Properties of the journal reader.                                       *)
(***************************************************************************)
\* The call that has just returned parsed its buffer: the read succeeded and
\* the cursor was set to the buffer's leading NextUsn.
Processed ==
    /\ jpc = "returned"
    /\ Unwrap(buffer).ok
    /\ Unwrap(buffer).NextUsn # 0
    /\ next_usn = Unwrap(buffer).NextUsn

HasRename(renames, file_id) == \E i \in 1..Len(renames) : renames[i].file_id = file_id

WellFormed(record) ==
    /\ record.RecordLength # 0
    /\ record.MajorVersion = 3
    /\ record.full_path # None

\* The records that reach the RENAME_NEW_NAME arm of read_entries.
ReachesMatchRename(record) ==
    /\ USN_REASON_RENAME_NEW_NAME \in record.Reason
    /\ record.Reason \cap {USN_REASON_RENAME_OLD_NAME, USN_REASON_FILE_CREATE,
                           USN_REASON_FILE_DELETE} = {}

\* The well-formed records from k on without the new-name records that have
\* no queued old name when their turn comes.
RECURSIVE DropUnmatched(_, _, _)
DropUnmatched(renames, records, k) ==
    IF k > Len(records) THEN << >>
    ELSE LET record == records[k]
         IN IF USN_REASON_RENAME_OLD_NAME \in record.Reason
            THEN <<record>> \o DropUnmatched(push_unmatched(renames, record), records, k + 1)
            ELSE IF ReachesMatchRename(record) /\ ~HasRename(renames, record.FileReferenceNumber)
            THEN DropUnmatched(renames, records, k + 1)
            ELSE <<record>> \o DropUnmatched(renames, records, k + 1)

\* C8: once read_entries has processed a buffer with leading NextUsn N, so
\* that the cursor is N, processing the same buffer again emits no entries and
\* leaves next_usn and the unmatched renames unchanged.
C8_ReplayIsNoOp ==
    (Processed /\ Unwrap(ret).ok) =>
        LET again == read_entries(JournalState, Unwrap(buffer))
        IN /\ again.result = Ok(<< >>)
           /\ again.next_usn = next_usn
           /\ again.unmatched_renames = unmatched_renames

C10_UnmatchedRenameDropped ==
    [][(/\ jpc = "idle"
        /\ jpc' = "returned"
        /\ Unwrap(buffer').ok
        /\ Unwrap(buffer').NextUsn # 0
        /\ Unwrap(buffer').NextUsn >= next_usn
        /\ \A k \in 1..Len(Unwrap(buffer').records) :
               WellFormed(Unwrap(buffer').records[k]))
       => /\ Unwrap(ret').ok
          /\ Unwrap(ret').entries =
                read_entries(JournalState,
                    [Unwrap(buffer') EXCEPT
                        !.records = DropUnmatched(unmatched_renames, @, 1)]).result.entries
      ]_vars

\* The queue entries the old-name records of a buffer stand for, in order.
RECURSIVE OldNames(_, _)
OldNames(records, k) ==
    IF k > Len(records) THEN << >>
    ELSE <<UnmatchedRename(records[k].FileReferenceNumber, Unwrap(records[k].full_path))>>
         \o OldNames(records, k + 1)

\* C11: the queue of unmatched renames has capacity 2000: a read of
\* RENAME_OLD_NAME records emits no entry and pushes each record at the back;
\* the queue never holds more than 2000 entries, and nothing is dropped while
\* a push finds fewer than 2000 entries queued.
C11_FifoCapacity2000 ==
    [][(/\ jpc = "idle"
        /\ jpc' = "returned"
        /\ Unwrap(buffer').ok
        /\ Unwrap(buffer').NextUsn # 0
        /\ Unwrap(buffer').NextUsn >= next_usn
        /\ \A k \in 1..Len(Unwrap(buffer').records) :
               /\ WellFormed(Unwrap(buffer').records[k])
               /\ USN_REASON_RENAME_OLD_NAME \in Unwrap(buffer').records[k].Reason)
       => /\ Unwrap(ret') = Ok(<< >>)
          /\ Len(unmatched_renames') <= 2000
          /\ Len(unmatched_renames) + Len(Unwrap(buffer').records) <= 2000
                => unmatched_renames'
                     = unmatched_renames \o OldNames(Unwrap(buffer').records, 1)
      ]_vars

\* C12: for a record without the RENAME_OLD_NAME bit, a FileCreate is emitted
\* only when FILE_CREATE is the only reason bit of interest that is set, and a
\* FileDelete whenever FILE_DELETE is set (so FILE_CREATE with FILE_DELETE
\* gives a FileDelete).
C12_ReasonClassification ==
    (/\ Processed
     /\ Unwrap(ret).ok
     /\ \A k \in 1..Len(Unwrap(buffer).records) :
            USN_REASON_RENAME_OLD_NAME \notin Unwrap(buffer).records[k].Reason)
    => /\ Len(Unwrap(ret).entries) = Len(Unwrap(buffer).records)
       /\ \A k \in 1..Len(Unwrap(buffer).records) :
             LET reason == Unwrap(buffer).records[k].Reason
                 entry == Unwrap(ret).entries[k]
             IN /\ entry.kind = "FileCreate" => reason = {USN_REASON_FILE_CREATE}
                /\ USN_REASON_FILE_DELETE \in reason => entry.kind = "FileDelete"

\* C13: next_usn never decreases, and a buffer whose leading NextUsn is zero
\* or lower than the cursor yields an empty batch and leaves next_usn and the
\* unmatched renames unchanged.
C13_CursorMonotonic ==
    [][/\ next_usn' >= next_usn
       /\ (/\ jpc = "idle"
           /\ jpc' = "returned"
           /\ Unwrap(buffer').ok
           /\ (Unwrap(buffer').NextUsn = 0 \/ Unwrap(buffer').NextUsn < next_usn))
          => /\ Unwrap(ret') = Ok(<< >>)
             /\ next_usn' = next_usn
             /\ unmatched_renames' = unmatched_renames
      ]_vars

\* After the cursor has advanced, a buffer with a lower, non-zero NextUsn and
\* an old-name record in it was read and skipped.
C13_Witness ==
    /\ jpc = "returned"
    /\ Unwrap(buffer).ok
    /\ Unwrap(buffer).NextUsn # 0
    /\ Unwrap(buffer).NextUsn < next_usn
    /\ Len(Unwrap(buffer).records) > 0
    /\ Unwrap(buffer).records[1].Reason = {USN_REASON_RENAME_OLD_NAME}
    /\ WellFormed(Unwrap(buffer).records[1])
    /\ Unwrap(ret) = Ok(<< >>)

(***************************************************************************)
(* Properties of the paths and the ancestor walk.                          *)
(***************************************************************************)
\* C14: for every live entry compute_full_path returns a string that starts
\* with the upper-case drive letter, ':' and '\', and has no two '\' in a row.
C14_PathWellFormed ==
    \A i \in Live(infos) :
        LET p == compute_full_path(infos, i)
        IN /\ p.returns
           /\ Len(p.out) >= 3
           /\ p.out[1] = "C"
           /\ p.out[2] = ":"
           /\ p.out[3] = "\\"
           /\ \A k \in 1..(Len(p.out) - 1) : ~(p.out[k] = "\\" /\ p.out[k + 1] = "\\")

\* C15: for every live entry f, whether its parent is the root, an occupied
\* slot or an empty slot, the first item of iter_with_parents(f) is f.
C15_WalkStartsAtSelf ==
    /\ \A i \in Live(infos) :
          LET walk == iter_with_parents(infos, i)
          IN walk.items # << >> /\ walk.items[1] = i
    /\ pc = "done" => yielded # << >>

\* The path of slot i built from the root down: the path of the parent, '\',
\* the name; "C:" stands for the root.  n bounds the length of the chain.
RECURSIVE PathFromRoot(_, _, _)
PathFromRoot(t, i, n) ==
    LET f == Unwrap(t[i + 1])
    IN (IF f.parent = ROOT_INDEX \/ n = 0
        THEN <<to_ascii_uppercase(volume_id), ":">>
        ELSE PathFromRoot(t, f.parent, n - 1))
       \o <<"\\">> \o chars(f.name)

\* The parent chain of slot i reaches MFT index 5 through occupied slots in
\* at most n steps.
RECURSIVE ReachesRoot(_, _, _)
ReachesRoot(t, i, n) ==
    /\ find_by_index(t, i) # None
    /\ \/ Unwrap(t[i + 1]).parent = ROOT_INDEX
       \/ n > 0 /\ ReachesRoot(t, Unwrap(t[i + 1]).parent, n - 1)

\* C16: for every live entry other than the root whose parent chain reaches
\* MFT index 5 through occupied slots, compute_full_path is "C:" followed by
\* '\' and the name of each entry from the top-most ancestor below the root
\* down to the entry itself.
C16_PathOfChain ==
    \A i \in Live(infos) \ {ROOT_INDEX} :
        ReachesRoot(infos, i, Len(infos)) =>
            compute_full_path(infos, i)
                = [returns |-> TRUE, out |-> PathFromRoot(infos, i, Len(infos))]

\* Slot 7 lies under the directory at slot 6, which lies under the root, and
\* its path is C:\x\x.
C16_Witness ==
    /\ Live(infos) = {5, 6, 7}
    /\ Unwrap(infos[8]).parent = 6
    /\ Unwrap(infos[7]).parent = ROOT_INDEX
    /\ is_directory(Unwrap(infos[7]))
    /\ Unwrap(infos[7]).name = "x"
    /\ compute_full_path(infos, 7).out = <<"C", ":", "\\", "x", "\\", "x">>
    /\ compute_full_path(infos, 6).out = <<"C", ":", "\\", "x">>

\* The names looked up: those of the model and one no entry has.
SearchNames == {".", "x", "file.bin", "y"}

\* C17: for every name, find_by_name returns the live entry of the lowest
\* slot that has the name, or nothing when there is none, however the scan
\* splits the table into chunks and in whatever order it examines them.
C17_FindByNameLowest ==
    pc = "idle" =>
    \A name \in SearchNames :
        LET all == Matches(infos, name, 0, Len(infos))
            sequential == IF all = {} THEN None ELSE Some(Min(all))
        IN \A cuts \in Splits(infos) : \A order \in Orders(cuts) :
               find_by_name(infos, name, cuts, order) = sequential

\* Slots 6 and 7 both hold the name "x"; with the table cut between them and
\* the chunk of slot 7 examined first the scan still returns slot 6.
C17_Witness ==
    /\ Matches(infos, "x", 0, Len(infos)) = {6, 7}
    /\ {7} \in Splits(infos)
    /\ <<7, 0>> \in Orders({7})
    /\ find_by_name(infos, "x", {7}, <<7, 0>>) = Some(6)

(***************************************************************************)
(* Frame conditions of the FileCreate and Rename arms.                     *)
(***************************************************************************)
\* The MFT indices of the entries the frame conditions are stated for: slots
\* of the table, occupied and empty, and slots past its end.
ProbeIndices == 0..9

Max(a, b) == IF a >= b THEN a ELSE b

\* C18: a Create{m, parent p, name, is_directory} leaves the table as it is
\* when slot m is occupied or slot p is empty or out of range; otherwise the
\* length becomes max(old length, m + 1), the added slots other than m are
\* empty, slot m holds an entry of that name, parent and directory bit with
\* size 0, and every other slot is unchanged.
C18_CreateFrame ==
    \A m \in ProbeIndices : \A p \in ProbeIndices : \A d \in BOOLEAN : \A n \in EventNames :
        LET after == process_journal_entries(infos, <<FileCreate(m, d, p, n)>>)
        IN /\ ~after.panicked
           /\ IF find_by_index(infos, m) # None \/ find_by_index(infos, p) = None
              THEN after.infos = infos
              ELSE /\ Len(after.infos) = Max(Len(infos), m + 1)
                   /\ \A i \in Slots(after.infos) \ Slots(infos) :
                          i # m => after.infos[i + 1] = None
                   /\ after.infos[m + 1] # None
                   /\ Unwrap(after.infos[m + 1]).name = n
                   /\ Unwrap(after.infos[m + 1]).parent = p
                   /\ is_directory(Unwrap(after.infos[m + 1])) = d
                   /\ size(Unwrap(after.infos[m + 1])) = 0
                   /\ \A i \in Slots(infos) \ {m} : after.infos[i + 1] = infos[i + 1]

\* A Create has filled slot 7 past the end of the initial table, slot 6 still
\* holds the file it held, and a Create for slot 9 would leave slot 8 empty.
C18_Witness ==
    /\ Len(infos) = 8
    /\ infos[8] = Some(FileInfo_new(0, TRUE, ROOT_INDEX, "x"))
    /\ infos[7] = InitTable[7]
    /\ LET after == process_journal_entries(infos, <<FileCreate(9, FALSE, 7, "x")>>)
       IN /\ Len(after.infos) = 10
          /\ after.infos[9] = None
          /\ after.infos[10] = Some(FileInfo_new(0, FALSE, 7, "x"))

\* C19: a Rename{m, new parent p, new name} changes nothing when slot p is
\* empty or out of range; otherwise an occupied slot m gets the new name and
\* parent and keeps its size and directory bit, an empty or out-of-range slot
\* m stays empty, and every other slot and the length are unchanged.
C19_RenameFrame ==
    \A m \in ProbeIndices : \A p \in ProbeIndices : \A n \in EventNames :
        LET after == process_journal_entries(infos, <<Rename(m, n, p)>>)
            before == find_by_index(infos, m)
            now == find_by_index(after.infos, m)
        IN /\ ~after.panicked
           /\ Len(after.infos) = Len(infos)
           /\ \A i \in Slots(infos) \ {m} : after.infos[i + 1] = infos[i + 1]
           /\ find_by_index(infos, p) = None => after.infos = infos
           /\ before = None => now = None
           /\ (find_by_index(infos, p) # None /\ before # None) =>
                 /\ now # None
                 /\ Unwrap(now).name = n
                 /\ Unwrap(now).parent = p
                 /\ size(Unwrap(now)) = size(Unwrap(before))
                 /\ is_directory(Unwrap(now)) = is_directory(Unwrap(before))

\* The file of slot 6 has been renamed and moved under the directory at slot
\* 7 and has kept its size.
C19_Witness ==
    /\ Len(infos) = 8
    /\ infos[8] # None
    /\ is_directory(Unwrap(infos[8]))
    /\ infos[7] = Some(FileInfo_new(1024, FALSE, 7, "x"))

(***************************************************************************)
(* Properties of the construction.                                         *)
(***************************************************************************)
\* C20: when the read or the wait of a worker fails the constructor returns
\* an error and no index, and whenever the constructor returns every worker
\* thread has finished.
C20_AllOrNothing ==
    build.pc = "returned" =>
        /\ \A w \in Workers : workers[w].state \in {"not_spawned", "finished"}
        /\ (\E w \in Workers : workers[w].failed)
              => Unwrap(build.result) = BuildErr

(***************************************************************************)
(* File records (file_record.rs).  A record is the chunk of bytes handed   *)
(* to FileRecord::new: len is the length of the chunk, the header fields   *)
(* are the values FileRecordHeader reads at its start, data are its bytes, *)
(* and attrs[o + 1] is the attribute header Attribute::new reads at byte   *)
(* offset o once the sector tails are restored.  The geometry is scaled    *)
(* down: a sector has BytesPerSector bytes, a record two sectors, the      *)
(* header FileRecordHeaderLen bytes and an attribute header                *)
(* AttributeHeaderLen bytes.                                               *)
(***************************************************************************)
BytesPerSector == 10
BytesPerFileRecordSegment == 20
FileRecordHeaderLen == 2
AttributeHeaderLen == 2
MaxAttrs == 3

Win32 == 1
DOS == 2

Attr(type, length, non_resident, reparse, namespace, real_size, name, value_length, allocated_size) ==
    [attribute_type |-> type, length |-> length, non_resident |-> non_resident,
     reparse |-> reparse, namespace |-> namespace, real_size |-> real_size,
     parent |-> ROOT_INDEX, name |-> name, value_length |-> value_length,
     allocated_size |-> allocated_size]

End == Attr("End", 0, FALSE, FALSE, 0, 0, "", 0, 0)

FileNameAttr(namespace, real_size, reparse, name) ==
    Attr("FileName", AttributeHeaderLen, FALSE, reparse, namespace, real_size, name, 0, 0)

DataAttr(non_resident, value_length, allocated_size) ==
    Attr("Data", AttributeHeaderLen, non_resident, FALSE, 0, 0, "", value_length,
         allocated_size)

\* The attributes the records of the model are made of.
AttrKinds ==
    {FileNameAttr(Win32, 0, FALSE, "hello.txt"), FileNameAttr(Win32, 17, FALSE, "hello.txt"),
     FileNameAttr(DOS, 0, FALSE, "HELLO~1.TXT"), FileNameAttr(Win32, 17, TRUE, "link"),
     DataAttr(FALSE, 3, 0), DataAttr(TRUE, 0, 1024)}

\* The attribute headers of a record whose attributes are list, laid out one
\* after the other from byte offset first on; every other offset reads End.
RECURSIVE OffsetOf(_, _, _)
OffsetOf(list, first, k) ==
    IF k = 1 THEN first ELSE OffsetOf(list, first, k - 1) + list[k - 1].length

Layout(list, first, len) ==
    [o1 \in 1..len |->
        IF \E k \in 1..Len(list) : OffsetOf(list, first, k) = o1 - 1
        THEN list[Min({k \in 1..Len(list) : OffsetOf(list, first, k) = o1 - 1})]
        ELSE End]

Record(len, magic, flags, usa_offset, usa_word_count, first, bytes_used, data, list) ==
    [len |-> len, magic |-> magic, flags |-> flags, usa_offset |-> usa_offset,
     usa_word_count |-> usa_word_count, first_attribute_offset |-> first,
     bytes_used |-> bytes_used, data |-> data, attrs |-> Layout(list, first, len)]

is_valid(rec) == rec.magic = "FILE"

is_used(rec) == rec.flags % 2 = 1

record_is_directory(rec) == (rec.flags \div 2) % 2 = 1

\* One turn of the for loop of FileRecord::fixup (file_record.rs 145-153)
\* and the turns after it.  A slice that reaches past the end of data
\* panics; in a build with debug assertions so does a sector tail that
\* differs from the signature at start - 2.
RECURSIVE FixupLoop(_, _, _, _, _, _, _)
FixupLoop(data, offset, start, end, sector_offset, sector_size, debug_assertions) ==
    IF offset >= end THEN [panicked |-> FALSE, data |-> data]
    ELSE IF offset + 2 > Len(data) \/ sector_offset + 2 > Len(data)
    THEN [panicked |-> TRUE, data |-> data]
    ELSE IF /\ debug_assertions
            /\ SubSeq(data, sector_offset + 1, sector_offset + 2) # SubSeq(data, start - 1, start)
    THEN [panicked |-> TRUE, data |-> data]
    ELSE FixupLoop([data EXCEPT ![sector_offset + 1] = data[offset + 1],
                                ![sector_offset + 2] = data[offset + 2]],
                   offset + 2, start, end, sector_offset + sector_size, sector_size,
                   debug_assertions)

\* A fixup that copies the array from its signature on.
fixup_signature(rec, sector_size, debug_assertions) ==
    IF ~is_valid(rec) THEN [panicked |-> FALSE, data |-> rec.data]
    ELSE FixupLoop(rec.data, rec.usa_offset, rec.usa_offset + 2,
                   rec.usa_offset + (rec.usa_word_count * 2 - 2),
                   sector_size - 2, sector_size, debug_assertions)

\* FileRecord::fixup (file_record.rs 132-154), for usa_word_count >= 1:
\* start = us_offset + 2, end = start + (usa_size - 2).
fixup(rec, sector_size, debug_assertions) ==
    IF ~is_valid(rec) THEN [panicked |-> FALSE, data |-> rec.data]
    ELSE FixupLoop(rec.data, rec.usa_offset + 2, rec.usa_offset + 2,
                   rec.usa_offset + 2 + (rec.usa_word_count * 2 - 2),
                   sector_size - 2, sector_size, debug_assertions)

\* AttributeIterator::next at offset (file_record.rs 162-183): None, a panic
\* of the slice data[offset..], a header read past the end of the chunk, or
\* Some(attr) and the offset of the next call.
AttributeIterator_next(rec, offset) ==
    IF offset >= rec.bytes_used THEN [kind |-> "None", attr |-> End, offset |-> offset]
    ELSE IF offset > rec.len THEN [kind |-> "panic", attr |-> End, offset |-> offset]
    ELSE IF offset + AttributeHeaderLen > rec.len
    THEN [kind |-> "out_of_bounds", attr |-> End, offset |-> offset]
    ELSE LET attr == rec.attrs[offset + 1]
         IN IF attr.attribute_type = "End"
            THEN [kind |-> "None", attr |-> End, offset |-> offset]
            ELSE [kind |-> "Some", attr |-> attr, offset |-> offset + attr.length]

\* The attributes the iterator yields from offset on, and how it ends: with
\* None, with a panic, with a read out of bounds, or never ("forever": the
\* last two items are yielded again and again).
Yielded(attr, rest) == [items |-> <<attr>> \o rest.items, end |-> rest.end]

RECURSIVE AttributeWalk(_, _)
WalkOn(rec, offset, n) ==
    IF n.kind # "Some" THEN [items |-> << >>, end |-> n.kind]
    ELSE IF n.offset = offset THEN [items |-> <<n.attr, n.attr>>, end |-> "forever"]
    ELSE Yielded(n.attr, AttributeWalk(rec, n.offset))

AttributeWalk(rec, offset) == WalkOn(rec, offset, AttributeIterator_next(rec, offset))

attributes(rec) == AttributeWalk(rec, rec.first_attribute_offset)

Returned(value) == [kind |-> "returned", value |-> value]
NotReturned(end) == [kind |-> end, value |-> None]

\* A constructor without the assertion.
FileInfo_unchecked(size_, is_directory_, parent, name) ==
    Returned(Some(FileInfo_new(size_, is_directory_, parent, name)))

\* A call of FileInfo::new (index.rs 33-41): assert!(size <= 0x7FFF_FFFF_FFFF_FFFF)
\* panics in every build.
FileInfo_checked(size_, is_directory_, parent, name) ==
    IF size_ > TopBit - 1 THEN NotReturned("panic")
    ELSE Returned(Some(FileInfo_new(size_, is_directory_, parent, name)))

\* find over the yielded attributes: it stops at the first of the type.
FindType(walk, hits) ==
    IF hits # {} THEN Returned(Some(walk.items[Min(hits)]))
    ELSE IF walk.end = "None" THEN Returned(None)
    ELSE NotReturned(walk.end)

FindIn(walk, attribute_type) ==
    FindType(walk, {k \in 1..Len(walk.items) : walk.items[k].attribute_type = attribute_type})

\* FileRecord::get_attribute (file_record.rs 58-63).
get_attribute(rec, attribute_type) == FindIn(attributes(rec), attribute_type)

\* filter, filter, take_while and last of destructure_file_name_attribute
\* over the yielded attributes from the k-th on.
RECURSIVE TakeNames(_, _, _, _)
\* A take_while that never stops.
TakeName_all(items, k, found, last, a) ==
    IF ~(a.attribute_type = "FileName" /\ ~a.non_resident) \/ a.reparse
    THEN TakeNames(items, k + 1, found, last)
    ELSE TakeNames(items, k + 1, found, Some(a))

TakeName(items, k, found, last, a) ==
    IF ~(a.attribute_type = "FileName" /\ ~a.non_resident) \/ a.reparse
    THEN TakeNames(items, k + 1, found, last)
    ELSE IF found THEN [stopped |-> TRUE, last |-> last]
    ELSE TakeNames(items, k + 1, a.namespace \in {1, 3}, Some(a))

TakeNames(items, k, found, last) ==
    IF k > Len(items) THEN [stopped |-> FALSE, last |-> last]
    ELSE TakeName(items, k, found, last, items[k])

\* map of destructure_file_name_attribute over the attribute last() returns.
NameOf(last) ==
    IF last = None THEN None
    ELSE Some([real_size |-> Unwrap(last).real_size, parent |-> Unwrap(last).parent,
               name |-> Unwrap(last).name])

NamesIn(walk, taken) ==
    IF taken.stopped \/ walk.end = "None" THEN Returned(NameOf(taken.last))
    ELSE NotReturned(walk.end)

NamesOf(walk) == NamesIn(walk, TakeNames(walk.items, 1, FALSE, None))

\* FileRecord::destructure_file_name_attribute (file_record.rs 71-115).
destructure_file_name_attribute(rec) == NamesOf(attributes(rec))

SizeOf(found) ==
    IF found.kind # "returned" THEN found
    ELSE IF found.value = None THEN Returned(0)
    ELSE IF Unwrap(found.value).non_resident
    THEN Returned(Unwrap(found.value).allocated_size)
    ELSE Returned(Unwrap(found.value).value_length)

\* FileRecord::get_data_attribute_size (file_record.rs 117-130).
get_data_attribute_size(rec) == SizeOf(get_attribute(rec, "Data"))

\* Some(FileInfo::new(...)) of index.rs 275-280.
NewInfo(names, data_size, directory) ==
    FileInfo_checked(Max(data_size, names.real_size), directory, names.parent, names.name)

\* The closure of index.rs 262-283 once the record is known to be valid and
\* in use: fixup, the name, the size.
Decoded(chunk, fixed, names, data_size) ==
    IF fixed.panicked THEN NotReturned("panic")
    ELSE IF names.kind # "returned" THEN names
    ELSE IF names.value = None THEN Returned(None)
    ELSE IF data_size.kind # "returned" THEN data_size
    ELSE NewInfo(Unwrap(names.value), data_size.value, record_is_directory(chunk))

\* The closure process_mft_data maps over the chunks of a worker's buffer
\* (index.rs 262-283): the slot of the chunk, or how the closure fails.  The
\* sector tails of the chunks of the model carry the signature, so that the
\* debug assertion of fixup holds in every build.
decode_chunk(chunk, sector_size) ==
    IF chunk.len < FileRecordHeaderLen THEN NotReturned("out_of_bounds")
    ELSE IF ~is_valid(chunk) \/ ~is_used(chunk) THEN Returned(None)
    ELSE Decoded(chunk, fixup(chunk, sector_size, TRUE),
                 destructure_file_name_attribute(chunk), get_data_attribute_size(chunk))

\* The chunks of a worker's buffer as the disk gives them: the update
\* sequence array at offset 2 (signature 2, replacement words 1), the
\* signature in the last 2 bytes of each sector, 0 elsewhere.
ChunkData(len) ==
    [i \in 1..len |-> IF i \in 3..4 \/ i % BytesPerSector \in {0, BytesPerSector - 1} THEN 2
                      ELSE IF i \in 5..8 THEN 1
                      ELSE 0]

Chunks ==
    {Record(len, magic, flags, 2, 3, 8, BytesPerFileRecordSegment, ChunkData(len), list) :
        len \in {BytesPerFileRecordSegment, BytesPerSector}, magic \in {"FILE", "BAAD"},
        flags \in 0..3, list \in SeqsUpTo(AttrKinds, MaxAttrs)}

CallDecodeChunk ==
    /\ call = NoCall
    /\ \E chunk \in Chunks :
       call' = Called("decode_chunk", <<chunk>>, decode_chunk(chunk, BytesPerSector))

(***************************************************************************)
(* distribute_runs_to_cpus (index.rs 364-405, and the earlier revision of  *)
(* main.rs 180-228).  A run is a Range<usize> of volume byte offsets.      *)
(***************************************************************************)
MaxRunList == 2
MaxCpus == 4

Range(start, end) == [start |-> start, end |-> end]

\* Range::len
range_len(run) == IF run.end > run.start THEN run.end - run.start ELSE 0

\* A split that hands the whole run to the group and pushes the rest back.
split_at_keep(run, split) ==
    <<Range(run.start, run.end), Range(run.start + split, run.end)>>

\* The two parts of a run split after `split` bytes (index.rs 389-392): the
\* part given to the current group and the part pushed back.
split_at(run, split) ==
    <<Range(run.start, run.start + split), Range(run.start + split, run.end)>>

PartitionReturned(run_groups) == [kind |-> "returned", run_groups |-> run_groups]
PartitionFailed(kind) == [kind |-> kind, run_groups |-> << >>]

\* The while loop of index.rs 380-398 for one group.
RECURSIVE FillGroup(_, _, _, _, _)
FillGroup(runs, run_group, run_group_size, run_size, BytesPerCluster) ==
    IF ~(run_group_size < run_size /\ runs # << >>)
    THEN [panicked |-> FALSE, runs |-> runs, run_group |-> run_group]
    ELSE LET run == Head(runs)
             run_len == range_len(run)
         IN IF run_len % BytesPerCluster # 0
            THEN [panicked |-> TRUE, runs |-> runs, run_group |-> run_group]
            ELSE IF run_group_size + run_len > run_size
            THEN LET split == run_size - run_group_size
                     parts == split_at(run, split)
                 IN FillGroup(<<parts[2]>> \o Tail(runs), Append(run_group, parts[1]),
                              run_group_size + split, run_size, BytesPerCluster)
            ELSE FillGroup(Tail(runs), Append(run_group, run), run_group_size + run_len,
                           run_size, BytesPerCluster)

\* The for loop of index.rs 377-401 with `left` groups to go, and the push
\* of the remaining runs after it.
RECURSIVE FillGroups(_, _, _, _, _)
FillGroups(left, runs, run_groups, run_size, BytesPerCluster) ==
    IF left = 0 THEN PartitionReturned(Append(run_groups, runs))
    ELSE LET filled == FillGroup(runs, << >>, 0, run_size, BytesPerCluster)
         IN IF filled.panicked THEN PartitionFailed("panic")
            ELSE FillGroups(left - 1, filled.runs, Append(run_groups, filled.run_group),
                            run_size, BytesPerCluster)

\* distribute_runs_to_cpus with a run_size that is not rounded to a cluster.
distribute_runs_unrounded(physical, BytesPerCluster, total_size, runs) ==
    LET cpus == physical - 1
    IN IF cpus = 0 THEN PartitionFailed("panic")
       ELSE FillGroups(cpus - 1, runs, << >>, total_size \div cpus, BytesPerCluster)

\* distribute_runs_to_cpus of index.rs; physical is num_cpus::get_physical().
\* With cpus = 0 the division total_size / cpus panics.
distribute_runs_to_cpus(physical, BytesPerCluster, total_size, runs) ==
    LET cpus == physical - 1
    IN IF cpus = 0 THEN PartitionFailed("panic")
       ELSE LET run_size == total_size \div cpus
            IN FillGroups(cpus - 1, runs, << >>, run_size - (run_size % BytesPerCluster),
                          BytesPerCluster)

\* The while loop of main.rs 199-216 for one group.  A split of 0 bytes
\* leaves runs and run_group_size as they were: the loop never ends.
RECURSIVE main_FillGroup(_, _, _, _, _)
main_FillGroup(runs, run_group, run_group_size, run_size, BytesPerCluster) ==
    IF ~(run_group_size < run_size /\ runs # << >>)
    THEN [kind |-> "returned", runs |-> runs, run_group |-> run_group]
    ELSE LET run == Head(runs)
             run_len == range_len(run)
         IN IF run_group_size + run_len > run_size /\ run_len % BytesPerCluster = 0
            THEN LET over == run_group_size + run_len - run_size
                     split == over - (over % BytesPerCluster)
                     parts == split_at(run, split)
                 IN IF split = 0
                    THEN [kind |-> "forever", runs |-> runs, run_group |-> run_group]
                    ELSE main_FillGroup(<<parts[2]>> \o Tail(runs),
                                        Append(run_group, parts[1]),
                                        run_group_size + split, run_size, BytesPerCluster)
            ELSE main_FillGroup(Tail(runs), Append(run_group, run),
                                run_group_size + run_len, run_size, BytesPerCluster)

RECURSIVE main_FillGroups(_, _, _, _, _)
main_FillGroups(left, runs, run_groups, run_size, BytesPerCluster) ==
    IF left = 0 THEN PartitionReturned(Append(run_groups, runs))
    ELSE LET filled == main_FillGroup(runs, << >>, 0, run_size, BytesPerCluster)
         IN IF filled.kind # "returned" THEN PartitionFailed(filled.kind)
            ELSE main_FillGroups(left - 1, filled.runs, Append(run_groups, filled.run_group),
                                 run_size, BytesPerCluster)

\* distribute_runs_to_cpus of main.rs (the runs of its RunGroups).
main_distribute_runs_to_cpus(physical, BytesPerCluster, total_size, runs) ==
    main_FillGroups(physical - 1, runs, << >>, total_size \div physical, BytesPerCluster)

\* volume_data.BytesPerCluster of the volume of the model.
ClusterBytes == 2

\* The run lists handed to the partition: what decode_data_runs returns for
\* BytesPerCluster, runs of 1 to 3 clusters that start on a cluster boundary.
RunLists(BytesPerCluster) ==
    SeqsUpTo({Range(start * BytesPerCluster, (start + count) * BytesPerCluster) :
                 start \in {0, 3, 6}, count \in 1..3}, MaxRunList)

RECURSIVE SumLen(_)
SumLen(runs) == IF runs = << >> THEN 0 ELSE range_len(Head(runs)) + SumLen(Tail(runs))

\* (total_size, runs) of the $MFT: the real size is the allocated size or
\* one byte less.
PartitionInputs ==
    {<<physical, ClusterBytes, total_size, runs>> :
        physical \in 1..MaxCpus, total_size \in 0..(3 * ClusterBytes * MaxRunList),
        runs \in RunLists(ClusterBytes)}

CallDistributeRunsToCpus ==
    /\ call = NoCall
    /\ \E in \in PartitionInputs :
          /\ in[3] \in {SumLen(in[4]), SumLen(in[4]) - 1}
          /\ call' = Called("distribute_runs_to_cpus", in,
                            distribute_runs_to_cpus(in[1], in[2], in[3], in[4]))

CallMainDistributeRunsToCpus ==
    /\ call = NoCall
    /\ \E in \in PartitionInputs :
          /\ in[3] \in {SumLen(in[4]), SumLen(in[4]) - 1}
          /\ call' = Called("main::distribute_runs_to_cpus", in,
                            main_distribute_runs_to_cpus(in[1], in[2], in[3], in[4]))

PartitionNext ==
    \/ CallDistributeRunsToCpus /\ UNCHANGED indexVars /\ UNCHANGED journalVars /\ UNCHANGED buildVars
    \/ CallMainDistributeRunsToCpus /\ UNCHANGED indexVars /\ UNCHANGED journalVars /\ UNCHANGED buildVars

PartitionSpec == Init /\ [][PartitionNext]_vars

(***************************************************************************)
(* The decoding pass of a worker and process_mft_data as a whole           *)
(* (index.rs 240-306).  The MFT is a stream of records that lies at volume *)
(* offset 0; a worker's buffer holds the bytes of its runs, one run after  *)
(* the other (read_runs_from_disk, index.rs 313-337).                      *)
(***************************************************************************)
MaxStream == 3

\* The volume byte offsets of a run list, run by run in order: position i of
\* the buffer of a worker holds the byte at volume offset Bytes(runs)[i].
RECURSIVE Bytes(_)
Bytes(runs) ==
    IF runs = << >> THEN << >>
    ELSE [i \in 1..range_len(Head(runs)) |-> Head(runs).start + i - 1] \o Bytes(Tail(runs))

\* The first len bytes of a record.
Truncate(rec, len) ==
    [rec EXCEPT !.len = len, !.data = SubSeq(rec.data, 1, len),
                !.attrs = SubSeq(rec.attrs, 1, len)]

\* Bytes that do not start at the start of a record: the middle of a record
\* does not spell the magic.
Torn ==
    Record(BytesPerFileRecordSegment, "torn", 0, 0, 0, 0, 0,
           [i \in 1..BytesPerFileRecordSegment |-> 0], << >>)

\* The records of the streams of the model: a file, a directory, a record
\* without a name, an unused record and a record without the magic.
StreamRecords ==
    {Record(BytesPerFileRecordSegment, "FILE", 1, 2, 3, 8, BytesPerFileRecordSegment,
            ChunkData(BytesPerFileRecordSegment),
            <<FileNameAttr(Win32, 17, FALSE, "hello.txt")>>),
     Record(BytesPerFileRecordSegment, "FILE", 3, 2, 3, 8, BytesPerFileRecordSegment,
            ChunkData(BytesPerFileRecordSegment),
            <<FileNameAttr(Win32, 0, FALSE, "hello.txt")>>),
     Record(BytesPerFileRecordSegment, "FILE", 1, 2, 3, 8, BytesPerFileRecordSegment,
            ChunkData(BytesPerFileRecordSegment), << >>),
     Record(BytesPerFileRecordSegment, "FILE", 0, 2, 3, 8, BytesPerFileRecordSegment,
            ChunkData(BytesPerFileRecordSegment),
            <<FileNameAttr(Win32, 17, FALSE, "hello.txt")>>),
     Record(BytesPerFileRecordSegment, "BAAD", 1, 2, 3, 8, BytesPerFileRecordSegment,
            ChunkData(BytesPerFileRecordSegment), << >>)}

Streams == SeqsUpTo(StreamRecords, MaxStream)

\* buffer.chunks_mut(chunk_size) (index.rs 260-261): the last chunk is
\* shorter when the length is not a multiple of chunk_size.
chunks_mut(bytes, chunk_size) ==
    [k \in 1..((Len(bytes) + chunk_size - 1) \div chunk_size) |->
        SubSeq(bytes, (k - 1) * chunk_size + 1, Min({k * chunk_size, Len(bytes)}))]

\* The chunk FileRecord::new sees when the chunk holds the bytes at the
\* volume offsets `offsets` of the stream.
ChunkOf(stream, offsets) ==
    IF /\ offsets[1] % BytesPerFileRecordSegment = 0
       /\ \A i \in 1..Len(offsets) : offsets[i] = offsets[1] + i - 1
    THEN Truncate(stream[offsets[1] \div BytesPerFileRecordSegment + 1], Len(offsets))
    ELSE Truncate(Torn, Len(offsets))

\* map and collect of index.rs 259-284 over the chunks from the k-th on,
\* slots being those of the chunks before: the slots, or the failure of the
\* first closure that does not return.
RECURSIVE CollectSlots(_, _, _, _)
Collect(stream, chunks, k, slots, slot) ==
    IF slot.kind # "returned" THEN [kind |-> slot.kind, slots |-> << >>]
    ELSE CollectSlots(stream, chunks, k + 1, Append(slots, slot.value))

CollectSlots(stream, chunks, k, slots) ==
    IF k > Len(chunks) THEN [kind |-> "returned", slots |-> slots]
    ELSE Collect(stream, chunks, k, slots,
                 decode_chunk(ChunkOf(stream, chunks[k]), BytesPerSector))

\* The decoding pass over the buffer read from the runs of a worker.
decoding_pass(stream, runs) ==
    CollectSlots(stream, chunks_mut(Bytes(runs), BytesPerFileRecordSegment), 1, << >>)

\* A worker reads the first `clusters` clusters of the stream and decodes them.
CallDecodingPass ==
    /\ call = NoCall
    /\ \E stream \in Streams, BytesPerCluster \in {BytesPerSector, BytesPerFileRecordSegment} :
       \E clusters \in 1..((Len(stream) * BytesPerFileRecordSegment) \div BytesPerCluster) :
          LET runs == <<Range(0, clusters * BytesPerCluster)>>
          IN call' = Called("decoding_pass", <<stream, runs>>, decoding_pass(stream, runs))

\* Records in use whose attribute lengths, first_attribute_offset or
\* bytes_used may be wrong: a length of 0, a length that leads past the
\* record, a first attribute or a bytes_used beyond the end of the record.
MalformedRecords ==
    {Record(BytesPerFileRecordSegment, "FILE", 1, 2, 3, first, bytes_used,
            ChunkData(BytesPerFileRecordSegment), list) :
        first \in {8, BytesPerFileRecordSegment + 4},
        bytes_used \in {BytesPerFileRecordSegment, 2 * BytesPerFileRecordSegment},
        list \in SeqsUpTo({Attr(type, length, FALSE, FALSE, Win32, 0, "a", 0, 0) :
                              type \in {"FileName", "Data"},
                              length \in {0, AttributeHeaderLen,
                                          BytesPerFileRecordSegment + 10}},
                          MaxAttrs)}

\* record.attributes() driven to its end, and get_attribute(Data) on the
\* same record.
CallAttributes ==
    /\ call = NoCall
    /\ \E rec \in MalformedRecords :
          call' = Called("attributes", <<rec>>,
                         [walk |-> attributes(rec), data |-> get_attribute(rec, "Data")])

DecodeNext ==
    \/ CallDecodeChunk /\ UNCHANGED indexVars /\ UNCHANGED journalVars /\ UNCHANGED buildVars
    \/ CallDecodingPass /\ UNCHANGED indexVars /\ UNCHANGED journalVars /\ UNCHANGED buildVars
    \/ CallAttributes /\ UNCHANGED indexVars /\ UNCHANGED journalVars /\ UNCHANGED buildVars

DecodeSpec == Init /\ [][DecodeNext]_vars

\* The closure of a worker thread over the stream (index.rs 253-285), its
\* reads having succeeded.  A closure that panics leaves no table, as one
\* that returns an error.
ThreadResult(pass) == IF pass.kind = "returned" THEN ThreadOk(pass.slots) ELSE ThreadErr

scan_closure(stream, runs) ==
    IF runs = << >> THEN ThreadOk(<< >>) ELSE ThreadResult(decoding_pass(stream, runs))

\* process_mft_data up to the spawn of the threads: the partition of the runs
\* of the stream among NumWorkers workers.
ScanSpawn ==
    /\ build.pc = "new"
    /\ call = NoCall
    /\ \E stream \in Streams, BytesPerCluster \in {BytesPerSector, BytesPerFileRecordSegment} :
          LET total_size == Len(stream) * BytesPerFileRecordSegment
              parts == distribute_runs_to_cpus(NumWorkers + 1, BytesPerCluster, total_size,
                                               <<Range(0, total_size)>>)
          IN /\ parts.kind = "returned"
             /\ call' = Called("process_mft_data", <<stream, BytesPerCluster>>, parts.run_groups)
    /\ workers' = [w \in Workers |-> [NotSpawned EXCEPT !.state = "running"]]
    /\ build' = [build EXCEPT !.pc = "joining"]

\* A worker thread runs to its end.
ScanWorker(w) ==
    /\ call.fn = "process_mft_data"
    /\ workers[w].state = "running"
    /\ workers' = [workers EXCEPT ![w] = [state |-> "finished",
                                         result |-> Some(scan_closure(call.args[1], call.out[w])),
                                         failed |-> FALSE]]
    /\ UNCHANGED build
    /\ UNCHANGED call

ScanNext ==
    \/ ScanSpawn /\ UNCHANGED indexVars /\ UNCHANGED journalVars
    \/ (\E w \in Workers : ScanWorker(w)) /\ UNCHANGED indexVars /\ UNCHANGED journalVars
    \/ JoinThread /\ UNCHANGED indexVars /\ UNCHANGED journalVars /\ UNCHANGED call
    \/ JoinDone /\ UNCHANGED indexVars /\ UNCHANGED journalVars /\ UNCHANGED call
    \/ ScopeEnd /\ UNCHANGED indexVars /\ UNCHANGED journalVars /\ UNCHANGED call

ScanSpec == Init /\ [][ScanNext]_vars

(***************************************************************************)
(* Calls of FileRecord::fixup on records of two sectors: the bytes of the  *)
(* update sequence array and of the sector tails are 0 or 1, the others 7. *)
(***************************************************************************)
FixupBytes == {0, 1}

\* The offsets of the bytes the calls vary: the update sequence array at
\* usa_offset and the last 2 bytes of each sector.
VariedOffsets(usa_offset) ==
    [j \in 1..6 |-> usa_offset + j - 1]
        \o <<BytesPerSector - 2, BytesPerSector - 1,
             BytesPerFileRecordSegment - 2, BytesPerFileRecordSegment - 1>>

FixupData(usa_offset, varied) ==
    [i \in 1..BytesPerFileRecordSegment |->
        IF \E j \in 1..10 : VariedOffsets(usa_offset)[j] = i - 1
        THEN varied[CHOOSE j \in 1..10 : VariedOffsets(usa_offset)[j] = i - 1]
        ELSE 7]

FixupRecords ==
    {Record(BytesPerFileRecordSegment, magic, 1, 2, usa_word_count, 8,
            BytesPerFileRecordSegment, FixupData(2, varied), << >>) :
        magic \in {"FILE", "BAAD"}, usa_word_count \in {2, 3},
        varied \in [1..10 -> FixupBytes]}

CallFixup ==
    /\ call = NoCall
    /\ \E rec \in FixupRecords, debug_assertions \in BOOLEAN :
          call' = Called("fixup", <<rec, debug_assertions>>,
                         fixup(rec, BytesPerSector, debug_assertions))

FixupNext ==
    \/ CallFixup /\ UNCHANGED indexVars /\ UNCHANGED journalVars /\ UNCHANGED buildVars

FixupSpec == Init /\ [][FixupNext]_vars

(***************************************************************************)
(* Attribute::decode_data_runs (file_attribute.rs 39-102).  The run list   *)
(* is a sequence of bytes: a header byte (low nibble the size of the       *)
(* cluster count, high nibble the size of the cluster offset), the count   *)
(* and the offset in little endian, and a 0 byte at the end.  The 8-byte   *)
(* buffer of the code is kept; a value byte is scaled down to ByteBits     *)
(* bits, so that an i64 has WordBits = 8 * ByteBits bits.                  *)
(***************************************************************************)
MaxDataRuns == 2

\* usize::from_le_bytes / i64::from_le_bytes of the buffer, as an unsigned
\* number below 2^WordBits.
RECURSIVE from_le_bytes(_)
from_le_bytes(buf) ==
    IF buf = << >> THEN 0 ELSE Head(buf) + Pow2(ByteBits) * from_le_bytes(Tail(buf))

\* The i64 with the bits of the unsigned u.
as_i64(u) == IF u >= Pow2(WordBits - 1) THEN u - Pow2(WordBits) ELSE u

\* buf[..n].copy_from_slice(&data[offset..offset + n]): the rest of buf stays.
copy_from_slice(buf, data, offset, n) ==
    [i \in 1..Len(buf) |-> IF i <= n THEN data[offset + i] ELSE buf[i]]

\* (cluster_offset << empty_bits) >> empty_bits on an i64, for
\* empty_bits < WordBits: the left shift drops the high bits, the right
\* shift is arithmetic.
sign_extend(u, empty_bits) ==
    as_i64((u % Pow2(WordBits - empty_bits)) * Pow2(empty_bits)) \div Pow2(empty_bits)

\* A sign extension that leaves out the shifts.
run_start_unsigned(previous_offset, buf, cluster_offset_size, bytes_per_cluster) ==
    previous_offset + from_le_bytes(buf) * bytes_per_cluster

\* "Create range" (file_attribute.rs 87-92): the start of the run from the
\* buffer that holds the cluster offset.
run_start(previous_offset, buf, cluster_offset_size, bytes_per_cluster) ==
    previous_offset
        + sign_extend(from_le_bytes(buf), (8 - cluster_offset_size) * ByteBits)
              * bytes_per_cluster

RECURSIVE DecodeRuns(_, _, _, _, _)
\* The rest of a turn of the while loop once the count is read into buf.
DecodeOffset(data, offset, previous_offset, data_runs, bytes_per_cluster, cluster_offset_size, cluster_count, buf, start) ==
    IF start < 0 THEN [kind |-> "panic", runs |-> data_runs]
    ELSE DecodeRuns(data, offset + cluster_offset_size, start,
                    Append(data_runs, Range(start, start + cluster_count * bytes_per_cluster)),
                    bytes_per_cluster)

DecodeCount(data, offset, previous_offset, data_runs, bytes_per_cluster, cluster_count_size, cluster_offset_size, buf) ==
    IF offset + cluster_count_size + cluster_offset_size > Len(data)
    THEN [kind |-> "panic", runs |-> data_runs]
    ELSE DecodeOffset(data, offset + cluster_count_size, previous_offset, data_runs,
                      bytes_per_cluster, cluster_offset_size, from_le_bytes(buf), buf,
                      run_start(previous_offset,
                                copy_from_slice(buf, data, offset + cluster_count_size,
                                                cluster_offset_size),
                                cluster_offset_size, bytes_per_cluster))

\* The while loop of file_attribute.rs 61-98 from offset on, for headers
\* whose sizes are 1 to 8.  An index past the end of data panics, and so
\* does, in a build with overflow checks, a start below 0.
DecodeRuns(data, offset, previous_offset, data_runs, bytes_per_cluster) ==
    IF offset >= Len(data) THEN [kind |-> "panic", runs |-> data_runs]
    ELSE IF data[offset + 1] = 0 THEN [kind |-> "returned", runs |-> data_runs]
    ELSE DecodeCount(data, offset + 1, previous_offset, data_runs, bytes_per_cluster,
                     data[offset + 1] % 16, data[offset + 1] \div 16,
                     copy_from_slice(<<0, 0, 0, 0, 0, 0, 0, 0>>, data, offset + 1,
                                     data[offset + 1] % 16))

SomeRuns(total_size, decoded) ==
    IF decoded.kind = "returned" THEN Returned(Some(<<total_size, decoded.runs>>))
    ELSE NotReturned(decoded.kind)

\* let data = &self.data[start..end] (file_attribute.rs 51-55): attr.data
\* are the bytes of the record from the header of the attribute on, and the
\* slice is as long as the whole attribute.
SliceRuns(attr) ==
    SubSeq(attr.data, attr.data_runs_offset + 1, attr.data_runs_offset + attr.length)

\* Attribute::decode_data_runs.  Slicing beyond the bytes of the record
\* panics.
decode_data_runs(attr, bytes_per_cluster) ==
    IF attr.attribute_type # "Data" \/ ~attr.non_resident THEN Returned(None)
    ELSE IF attr.real_size = 0 THEN Returned(Some(<<0, << >>>>))
    ELSE IF attr.data_runs_offset + attr.length > Len(attr.data) THEN NotReturned("panic")
    ELSE SomeRuns(attr.real_size, DecodeRuns(SliceRuns(attr), 0, 0, << >>, bytes_per_cluster))

\* The runs of the lists of the model: a cluster count with the size of its
\* field and a cluster offset, relative to the start of the run before, with
\* the size of its field.
CountFields == {<<1, 1>>, <<5, 2>>, <<1, 8>>}
OffsetFields == {<<-6, 2>>, <<-2, 1>>, <<-2, 8>>, <<1, 1>>, <<7, 2>>}

RunFields ==
    {[cluster_count |-> c[1], cluster_count_size |-> c[2],
      cluster_offset |-> o[1], cluster_offset_size |-> o[2]] :
        c \in CountFields, o \in OffsetFields}

\* The n low bytes of the two's complement of v, in little endian.
to_le_bytes(v, n) ==
    [i \in 1..n |-> ((v + Pow2(WordBits)) \div Pow2(ByteBits * (i - 1))) % Pow2(ByteBits)]

\* The bytes of a run list on disk.
RECURSIVE EncodeRuns(_)
EncodeRuns(fields) ==
    IF fields = << >> THEN <<0>>
    ELSE <<Head(fields).cluster_offset_size * 16 + Head(fields).cluster_count_size>>
            \o to_le_bytes(Head(fields).cluster_count, Head(fields).cluster_count_size)
            \o to_le_bytes(Head(fields).cluster_offset, Head(fields).cluster_offset_size)
            \o EncodeRuns(Tail(fields))

\* The cluster at which run k of the list starts.
RECURSIVE StartCluster(_, _)
StartCluster(fields, k) ==
    IF k = 0 THEN 0 ELSE StartCluster(fields, k - 1) + fields[k].cluster_offset

\* The attribute whose run list follows its header, in a record that holds
\* tail more bytes after it.
DataRunAttr(type, non_resident, real_size, run_data, tail) ==
    [attribute_type |-> type, non_resident |-> non_resident, real_size |-> real_size,
     data_runs_offset |-> AttributeHeaderLen,
     length |-> AttributeHeaderLen + Len(run_data),
     data |-> [i \in 1..AttributeHeaderLen |-> 0] \o run_data \o [i \in 1..tail |-> 3]]

\* decode_data_runs on the non-resident $DATA attribute that holds a run
\* list whose runs lie on the volume.
CallDecodeDataRuns ==
    /\ call = NoCall
    /\ \E fields \in SeqsUpTo(RunFields, MaxDataRuns), bytes_per_cluster \in {1, 2},
          real_size \in {0, 9}, tail \in {0, AttributeHeaderLen} :
          /\ \A k \in 1..Len(fields) : StartCluster(fields, k) >= 0
          /\ call' = Called("decode_data_runs",
                            <<fields, bytes_per_cluster, real_size, tail>>,
                            decode_data_runs(DataRunAttr("Data", TRUE, real_size,
                                                         EncodeRuns(fields), tail),
                                             bytes_per_cluster))

\* decode_data_runs on an attribute that is resident or not $DATA.
CallDecodeNoRuns ==
    /\ call = NoCall
    /\ \E type \in {"Data", "FileName"}, non_resident \in BOOLEAN :
          /\ type # "Data" \/ ~non_resident
          /\ call' = Called("decode_data_runs (no runs)", <<type, non_resident>>,
                            decode_data_runs(DataRunAttr(type, non_resident, 9, <<0>>, 0), 1))

DataRunsNext ==
    \/ CallDecodeDataRuns /\ UNCHANGED indexVars /\ UNCHANGED journalVars /\ UNCHANGED buildVars
    \/ CallDecodeNoRuns /\ UNCHANGED indexVars /\ UNCHANGED journalVars /\ UNCHANGED buildVars

DataRunsSpec == Init /\ [][DataRunsNext]_vars

(***************************************************************************)
(* The primary name of a record (file_record.rs 71-115): records whose     *)
(* attributes are $FILE_NAME attributes of every namespace, resident or    *)
(* not, reparse points or not, and a $DATA attribute.                      *)
(***************************************************************************)
POSIX == 0
Win32AndDOS == 3

NameKinds ==
    {FileNameAttr(Win32, 17, FALSE, "hello.txt"), FileNameAttr(Win32AndDOS, 5, FALSE, "both"),
     FileNameAttr(DOS, 0, FALSE, "HELLO~1.TXT"), FileNameAttr(POSIX, 3, FALSE, "posix"),
     FileNameAttr(Win32, 17, TRUE, "link"),
     Attr("FileName", AttributeHeaderLen, TRUE, FALSE, Win32, 1, "far", 0, 0),
     DataAttr(FALSE, 3, 0)}

\* A valid record in use (flags 1 a file, flags 3 a directory) that holds
\* the attributes of list.
NameRecord(flags, list) ==
    Record(BytesPerFileRecordSegment, "FILE", flags, 2, 3, 8, BytesPerFileRecordSegment,
           ChunkData(BytesPerFileRecordSegment), list)

CallDestructureFileNameAttribute ==
    /\ call = NoCall
    /\ \E list \in SeqsUpTo(NameKinds, MaxAttrs) :
       call' = Called("destructure_file_name_attribute", <<list>>,
                      destructure_file_name_attribute(NameRecord(1, list)))

\* The decoding closure on the same records.
CallDecodeNamed ==
    /\ call = NoCall
    /\ \E list \in SeqsUpTo(NameKinds, MaxAttrs), flags \in {1, 3} :
       call' = Called("decode_chunk (names)", <<list>>,
                      decode_chunk(NameRecord(flags, list), BytesPerSector))

NameNext ==
    \/ CallDestructureFileNameAttribute /\ UNCHANGED indexVars /\ UNCHANGED journalVars /\ UNCHANGED buildVars
    \/ CallDecodeNamed /\ UNCHANGED indexVars /\ UNCHANGED journalVars /\ UNCHANGED buildVars

NameSpec == Init /\ [][NameNext]_vars

(***************************************************************************)
(* The packed word of FileInfo (index.rs 33-52) over every size a word     *)
(* holds, and the decoding closure on records whose sizes on disk reach    *)
(* into the top bit.                                                       *)
(***************************************************************************)
CallFileInfoNew ==
    /\ call = NoCall
    /\ \E size_ \in 0..(Pow2(WordBits) - 1), is_directory_ \in BOOLEAN :
       call' = Called("FileInfo::new", <<size_, is_directory_>>,
                      FileInfo_checked(size_, is_directory_, ROOT_INDEX, "x"))

DiskSizes == {0, 17, TopBit - 1, TopBit, Pow2(WordBits) - 1}

CallDecodeSized ==
    /\ call = NoCall
    /\ \E flags \in {1, 3}, real_size \in DiskSizes, allocated_size \in DiskSizes :
       call' = Called("decode_chunk (sizes)", <<flags, real_size, allocated_size>>,
                      decode_chunk(NameRecord(flags,
                                              <<FileNameAttr(Win32, real_size, FALSE, "hello.txt"),
                                                DataAttr(TRUE, 0, allocated_size)>>),
                                   BytesPerSector))

PackNext ==
    \/ CallFileInfoNew /\ UNCHANGED indexVars /\ UNCHANGED journalVars /\ UNCHANGED buildVars
    \/ CallDecodeSized /\ UNCHANGED indexVars /\ UNCHANGED journalVars /\ UNCHANGED buildVars

PackSpec == Init /\ [][PackNext]_vars

(***************************************************************************)
(* Properties of the helper functions.                                     *)
(***************************************************************************)
\* C21: when query_volume_data, MftFile::new, read_runs_from_disk or
\* Journal::new returns, with success or with an error, a close has been
\* called on every handle the call opened, except the handle a Journal keeps
\* when Journal::new succeeds.
C21_NoHandleLeak ==
    call.fn \in {"query_volume_data", "MftFile::new", "read_runs_from_disk", "Journal::new"}
    => call.out.unclosed
          = IF call.fn = "Journal::new" /\ call.out.ok THEN {VolumeHandle} ELSE {}

\* C22: every entry the MFT scan builds from a record whose header says
\* directory (flag bit 1) has size 0, whatever sizes the $FILE_NAME and $DATA
\* attributes of the record carry.
C22_DirectorySizeZero ==
    (/\ call.fn = "decode_chunk"
     /\ call.out.kind = "returned"
     /\ call.out.value # None
     /\ is_directory(Unwrap(call.out.value)))
    => size(Unwrap(call.out.value)) = 0

RECURSIVE GroupBytes(_)
GroupBytes(run_groups) ==
    IF run_groups = << >> THEN << >>
    ELSE Bytes(Head(run_groups)) \o GroupBytes(Tail(run_groups))

\* C23: with a physical CPU count of 1 distribute_runs_to_cpus (index.rs)
\* returns one run group that holds all input runs, unsplit and in order.
C23_OneCpuOneGroup ==
    (call.fn = "distribute_runs_to_cpus" /\ call.args[1] = 1)
    => (call.out.kind = "returned" /\ call.out.run_groups = <<call.args[4]>>)

\* C24: with N >= 2 workers (N = physical - 1, the number of threads spawned)
\* and B = floor(total_size / N) rounded down to a cluster multiple,
\* distribute_runs_to_cpus (index.rs) returns N groups, each but the last of
\* at most B bytes, every run of every group starts and ends on a cluster
\* boundary, and the last group holds all the bytes after those of the others.
C24_GroupsBounded ==
    (call.fn = "distribute_runs_to_cpus" /\ call.args[1] - 1 >= 2)
    => LET N == call.args[1] - 1
           bpc == call.args[2]
           B == (call.args[3] \div N) - ((call.args[3] \div N) % bpc)
           groups == call.out.run_groups
       IN /\ call.out.kind = "returned"
          /\ Len(groups) = N
          /\ \A k \in 1..(N - 1) : SumLen(groups[k]) <= B
          /\ \A k \in 1..N : \A j \in 1..Len(groups[k]) :
                groups[k][j].start % bpc = 0 /\ groups[k][j].end % bpc = 0
          /\ Bytes(groups[N])
                = SubSeq(Bytes(call.args[4]),
                         Len(GroupBytes(SubSeq(groups, 1, N - 1))) + 1,
                         Len(Bytes(call.args[4])))

\* A call with three workers that splits a run.
C24_Witness ==
    /\ call.fn = "distribute_runs_to_cpus"
    /\ call.args[1] = 4
    /\ call.out.kind = "returned"
    /\ \E k \in 1..2 : \E j \in 1..Len(call.out.run_groups[k]) :
          \A i \in 1..Len(call.args[4]) : call.out.run_groups[k][j] # call.args[4][i]

\* C25: the byte offsets of the groups either revision of
\* distribute_runs_to_cpus returns, group by group and run by run, are the
\* byte offsets of the input runs in order.
C25_ByteStreamPreserved ==
    (/\ call.fn \in {"distribute_runs_to_cpus", "main::distribute_runs_to_cpus"}
     /\ call.out.kind = "returned")
    => GroupBytes(call.out.run_groups) = Bytes(call.args[4])

\* A call of the main.rs revision that returns with a run split in two.
C25_Witness ==
    /\ call.fn = "main::distribute_runs_to_cpus"
    /\ call.out.kind = "returned"
    /\ Len(call.out.run_groups) >= 2
    /\ \E j \in 1..Len(call.out.run_groups[1]) :
          /\ range_len(call.out.run_groups[1][j]) > 0
          /\ \A i \in 1..Len(call.args[4]) : call.out.run_groups[1][j] # call.args[4][i]

\* C26: whatever the schedule of the worker threads, the table
\* process_mft_data returns has one slot per record of the MFT stream, and
\* slot k is what the decoding closure makes of the k-th record: an empty
\* slot for an invalid, unused or name-less record.
C26_SlotIsRecordNumber ==
    (/\ call.fn = "process_mft_data"
     /\ build.pc = "returned"
     /\ Unwrap(build.result).ok)
    => Unwrap(Unwrap(build.result).infos)
          = [k \in 1..Len(call.args[1]) |->
                decode_chunk(call.args[1][k], BytesPerSector).value]

\* C27: the decoding pass of a worker returns floor(bytes read / record size)
\* slots: a trailing partial chunk is not decoded and gives no slot.
C27_PartialChunkIgnored ==
    call.fn = "decoding_pass"
    => /\ call.out.kind = "returned"
       /\ Len(call.out.slots) = Len(Bytes(call.args[2])) \div BytesPerFileRecordSegment

\* C28: attribute iteration over a record always comes to an end with None,
\* also over a record with a malformed attribute: it does not yield the same
\* attribute forever and it does not fail, and neither does get_attribute.
C28_IterationStops ==
    call.fn = "attributes"
    => (call.out.walk.end = "None" /\ call.out.data.kind = "returned")

\* C29: when fixup returns on a record with magic "FILE" and one replacement
\* word per sector, byte j of the last 2 bytes of sector k is byte j of the
\* k-th replacement word of the update sequence array and every other byte
\* is as it was; on a record with another magic every byte is as it was.
C29_FixupFrame ==
    (/\ call.fn = "fixup"
     /\ ~call.out.panicked
     /\ (is_valid(call.args[1])
            => call.args[1].usa_word_count - 1 = call.args[1].len \div BytesPerSector))
    => LET rec == call.args[1]
       IN \A i \in 1..rec.len :
             call.out.data[i]
                = IF is_valid(rec) /\ (i - 1) % BytesPerSector >= BytesPerSector - 2
                  THEN rec.data[rec.usa_offset + 2 * (((i - 1) \div BytesPerSector) + 1)
                                   + (((i - 1) % BytesPerSector) - (BytesPerSector - 2)) + 1]
                  ELSE rec.data[i]

\* A call on a valid record that returns with both sector tails changed.
C29_Witness ==
    /\ call.fn = "fixup"
    /\ is_valid(call.args[1])
    /\ call.args[1].usa_word_count = 3
    /\ ~call.out.panicked
    /\ call.out.data[BytesPerSector] # call.args[1].data[BytesPerSector]
    /\ call.out.data[BytesPerFileRecordSegment - 1]
          # call.args[1].data[BytesPerFileRecordSegment - 1]

\* C30: decode_data_runs of the encoding of a run list, given as cluster
\* counts and signed cluster offsets relative to the start of the run
\* before, returns in order the byte ranges that start at
\* start_k = start_(k-1) + offset_k * bytes_per_cluster (start_0 = 0) and
\* are count_k * bytes_per_cluster long, whatever the sizes of the fields
\* (for an attribute of a size other than 0 whose slice of the record is
\* within the record).
C30_DataRunsRoundTrip ==
    (call.fn = "decode_data_runs" /\ call.args[3] # 0 /\ call.args[4] >= AttributeHeaderLen)
    => LET fields == call.args[1]
           bytes_per_cluster == call.args[2]
       IN call.out
             = Returned(Some(<<call.args[3],
                   [k \in 1..Len(fields) |->
                       Range(StartCluster(fields, k) * bytes_per_cluster,
                             (StartCluster(fields, k) + fields[k].cluster_count)
                                 * bytes_per_cluster)]>>))

\* A decoded list of two runs whose second run lies before the first and
\* whose count field is wider than its offset field.
C30_Witness ==
    /\ call.fn = "decode_data_runs"
    /\ call.args[3] # 0
    /\ Len(call.args[1]) = 2
    /\ call.args[1][2].cluster_offset < 0
    /\ call.args[1][2].cluster_count_size > call.args[1][2].cluster_offset_size
    /\ call.out.kind = "returned"
    /\ Unwrap(call.out.value)[2][2].start < Unwrap(call.out.value)[2][1].start

\* The resident $FILE_NAME attributes of list that are no reparse points, in
\* record order.
Candidates(list) ==
    LET Named(a) == a.attribute_type = "FileName" /\ ~a.non_resident /\ ~a.reparse
    IN SelectSeq(list, Named)

\* The first candidate of namespace Win32 or Win32AndDOS, else the last
\* candidate, else none.
Primary(names) ==
    LET wins == {k \in 1..Len(names) : names[k].namespace \in {Win32, Win32AndDOS}}
    IN IF names = << >> THEN None
       ELSE IF wins # {} THEN Some(names[Min(wins)])
       ELSE Some(names[Len(names)])

\* C31: destructure_file_name_attribute returns the size, parent and name
\* of the first resident non-reparse $FILE_NAME attribute of namespace
\* Win32 or Win32AndDOS if there is one, else of the last resident
\* non-reparse $FILE_NAME attribute, else nothing; and the decoding closure
\* gives an empty slot for a record without such an attribute.
C31_PrimaryName ==
    /\ call.fn = "destructure_file_name_attribute"
       => LET primary == Primary(Candidates(call.args[1]))
          IN /\ call.out.kind = "returned"
             /\ (primary = None) = (call.out.value = None)
             /\ primary # None
                => /\ Unwrap(call.out.value).name = Unwrap(primary).name
                   /\ Unwrap(call.out.value).real_size = Unwrap(primary).real_size
                   /\ Unwrap(call.out.value).parent = Unwrap(primary).parent
    /\ call.fn = "decode_chunk (names)"
       => /\ call.out.kind = "returned"
          /\ (Candidates(call.args[1]) = << >>) = (call.out.value = None)
          /\ call.out.value # None
             => Unwrap(call.out.value).name = Unwrap(Primary(Candidates(call.args[1]))).name

\* A record whose first candidate is of namespace DOS, whose second is of
\* Win32AndDOS and whose third is of Win32: the second is returned.
C31_Witness ==
    /\ call.fn = "destructure_file_name_attribute"
    /\ Len(Candidates(call.args[1])) = 3
    /\ Candidates(call.args[1])[1].namespace = DOS
    /\ Candidates(call.args[1])[2].namespace = Win32AndDOS
    /\ Candidates(call.args[1])[3].namespace = Win32
    /\ call.out.kind = "returned"
    /\ Unwrap(call.out.value).name = "both"

\* C32: FileInfo::new(s, d, ..) with s below the top bit yields an entry
\* with size() = s and is_directory() = d; a size that reaches the top bit
\* yields no entry, neither from FileInfo::new nor from the decoding
\* closure, whose entries have the size max(allocated size, real size) and
\* the directory flag of the record.
C32_PackingLossless ==
    /\ call.fn = "FileInfo::new"
       => IF call.args[1] <= TopBit - 1
          THEN /\ call.out.kind = "returned"
               /\ size(Unwrap(call.out.value)) = call.args[1]
               /\ is_directory(Unwrap(call.out.value)) = call.args[2]
               /\ Unwrap(call.out.value).size_and_directory
                     = call.args[1] + (IF call.args[2] THEN TopBit ELSE 0)
          ELSE call.out.kind # "returned"
    /\ call.fn = "decode_chunk (sizes)"
       => IF Max(call.args[2], call.args[3]) <= TopBit - 1
          THEN /\ call.out.kind = "returned"
               /\ size(Unwrap(call.out.value)) = Max(call.args[2], call.args[3])
               /\ is_directory(Unwrap(call.out.value)) = (call.args[1] = 3)
          ELSE call.out.kind # "returned"

\* The largest size, packed with the directory flag.
C32_Witness ==
    /\ call.fn = "FileInfo::new"
    /\ call.args = <<TopBit - 1, TRUE>>
    /\ call.out.kind = "returned"
    /\ size(Unwrap(call.out.value)) = TopBit - 1
    /\ is_directory(Unwrap(call.out.value))

(***************************************************************************)
(* Properties of the journal reader: failed reads and repeated renames.    *)
(***************************************************************************)
\* C33 as claimed: when read_entries returns an error partway through a
\* buffer, next_usn still has the value it had before the call.
C33_CursorKeptOnError ==
    [][(/\ jpc = "idle"
        /\ jpc' = "returned"
        /\ Unwrap(buffer').ok
        /\ ~Unwrap(ret').ok)
       => next_usn' = next_usn
      ]_vars

\* C33 as amended: when read_entries returns an error partway through a
\* buffer, next_usn has the NextUsn of that buffer, which is not below the
\* value before the call, and no entry of the buffer is returned; the old
\* names queued before the failing record stay queued.
C33_CursorAdvancedOnError ==
    [][(/\ jpc = "idle"
        /\ jpc' = "returned"
        /\ Unwrap(buffer').ok
        /\ ~Unwrap(ret').ok)
       => /\ next_usn' = Unwrap(buffer').NextUsn
          /\ next_usn' >= next_usn
          /\ Unwrap(ret').entries = << >>
          /\ Len(unmatched_renames') >= Len(unmatched_renames)
      ]_vars

\* A buffer of a FILE_CREATE record and a record of length 0 was read: the
\* call failed and the cursor is at the NextUsn of the buffer, beyond the
\* values a journal starts with.
C33_Witness ==
    /\ jpc = "returned"
    /\ Unwrap(buffer).ok
    /\ ~Unwrap(ret).ok
    /\ Len(Unwrap(buffer).records) = 2
    /\ Unwrap(buffer).records[1].Reason = {USN_REASON_FILE_CREATE}
    /\ WellFormed(Unwrap(buffer).records[1])
    /\ Unwrap(buffer).records[2].RecordLength = 0
    /\ Unwrap(buffer).NextUsn = MaxUsn
    /\ next_usn = MaxUsn

\* C34: a RENAME_NEW_NAME record is paired with the most recent
\* RENAME_OLD_NAME record of the same file before it: whatever the journal
\* has read so far, a buffer that holds an old-name record of a file with
\* path q and then a new-name record of that file with path r yields the
\* Rename from q to r.
C34_PairsWithLatestOldName ==
    jpc = "idle"
    => \A file_id \in FileIds : \A q \in Paths : \A r \in Paths :
          read_entries(JournalState,
                       JournalBuffer(TRUE, Max(next_usn, 1),
                           <<UsnRecord(64, 3, {USN_REASON_RENAME_OLD_NAME}, file_id, Some(q)),
                             UsnRecord(64, 3, {USN_REASON_RENAME_NEW_NAME}, file_id, Some(r))>>)
                      ).result
             = Ok(<<JournalEntry_Rename(q, r)>>)

====
